---- MODULE Spec2Model ----
(***************************************************************************)
(* Provisioning and billing engine of the reseller panel.                  *)
(*                                                                         *)
(* Money is counted in hundredths (DECIMAL(10,2)), data limits in          *)
(* thousandths of a GB, time in days.  Every HTTP request runs in a        *)
(* handler with its own ORM session: the Reseller row is loaded once when  *)
(* the request is authenticated, and what the handler later writes is the  *)
(* value it computed from that loaded copy.                                *)
(*                                                                         *)
(* The call create_marzban_user(panel_url=..., token=..., ...) in          *)
(* create_marzban_user_for_reseller is modelled as the panel client's      *)
(* create_marzban_user (marzban_api_client.py), whose keyword arguments it *)
(* passes.                                                                 *)
(***************************************************************************)
EXTENDS Integers, Sequences, FiniteSets, TLC

\* ------------------------------------------------------------------ bounds
\* Requests started in one behaviour.
MaxOps == 3
\* Top-up receipts submitted before the behaviour starts.
MaxReceipts == 1

\* --------------------------------------------------------------- universe
\* Python's None / SQL NULL for ids, optional numbers and request fields.
NULL == -1
Procs == {1, 2}
Resellers == {1, 2}
Panels == {1, 2}
Usernames == {"u1", "u2"}
ReceiptIds == 1..MaxReceipts
\* Local ids a modification request may name.
LocalIds == {1, 2}

\* ------------------------------------------------------- configured data
\* reseller_panel_accesses: the panels each reseller may provision on.
reseller_panels == [r \in Resellers |-> IF r = 1 THEN {1} ELSE {1, 2}]

\* Reseller.marzban_admin_id
marzban_admin_id == [r \in Resellers |-> 100 + r]

\* pricing_plans: the "30-day-50GB" plan.
InitialPlans == {[id |-> 1, name |-> "Monthly", duration_days |-> 30, price |-> 2000]}

\* reseller_pricings: reseller 1 pays per GB, reseller 2 by plan.
InitialPricings ==
    { [id |-> 1, reseller_id |-> 1, marzban_panel_id |-> NULL,
       pricing_plan_id |-> NULL, custom_price_per_gb |-> 500],
      [id |-> 2, reseller_id |-> 2, marzban_panel_id |-> NULL,
       pricing_plan_id |-> 1, custom_price_per_gb |-> NULL] }

\* Wallet balance of every reseller when the behaviour starts.
OpeningBalance == [r \in Resellers |-> IF r = 1 THEN 1000 ELSE 2000]

\* Receipts alternate between the resellers; each claims 500.
InitialReceipts ==
    [i \in ReceiptIds |->
        [reseller_id |-> ((i - 1) % 2) + 1, amount |-> 500, status |-> "pending"]]

\* ------------------------------------------------------------ requests
NoRequest ==
    [marzban_panel_id |-> NULL, username |-> "", data_limit_gb |-> NULL,
     expire_days |-> NULL, expire_days_to_add |-> NULL, proxies |-> NULL,
     inbounds |-> NULL, note |-> NULL, local_id |-> NULL, receipt_id |-> NULL]

\* ResellerMarzbanUserCreateRequest
CreateRequests ==
    { [NoRequest EXCEPT !.marzban_panel_id = pn, !.username = u,
                        !.data_limit_gb = gb, !.expire_days = d] :
        pn \in {1}, u \in Usernames, gb \in {2000, 3000}, d \in {30} }

\* ResellerMarzbanUserUpdateRequest
ModifyShapes ==
    { [NoRequest EXCEPT !.data_limit_gb = 2000],
      [NoRequest EXCEPT !.expire_days_to_add = 30],
      [NoRequest EXCEPT !.note = 1] }

\* ------------------------------------------------------------ the state
VARIABLES
    wallet_balance,          \* resellers.wallet_balance, committed
    allow_negative_balance,  \* resellers.allow_negative_balance
    transactions,            \* table transactions, in id order
    marzban_users,           \* table marzban_users, in id order
    payment_receipts,        \* table payment_receipts
    reseller_pricings,       \* table reseller_pricings
    pricing_plans,           \* table pricing_plans
    panel_users,             \* the users each remote panel holds
    now,                     \* datetime.utcnow(), in hours
    utc_offset,              \* local time of the host minus UTC, in hours
    pc,                      \* where each request handler stands
    loc,                     \* the handler's local variables
    result,                  \* the HTTP response delivered to the caller
    ops                      \* requests started so far

db == <<wallet_balance, transactions, marzban_users, payment_receipts>>
config == <<allow_negative_balance, reseller_pricings, pricing_plans, utc_offset>>
vars == <<wallet_balance, allow_negative_balance, transactions, marzban_users,
          payment_receipts, reseller_pricings, pricing_plans, panel_users,
          now, utc_offset, pc, loc, result, ops>>

\* ------------------------------------------------------------ helpers
Max(a, b) == IF a >= b THEN a ELSE b

\* The user object a panel returns; username "" stands for a body that is
\* None, empty or has no username.
NoPayload ==
    [username |-> "", expire |-> NULL, data_limit |-> NULL,
     proxies |-> NULL, inbounds |-> NULL, admin_id |-> NULL]

\* int(gb * 1024 * 1024 * 1024), counted in units of 2^20 bytes.
gb_to_bytes(gb) == IF gb = NULL THEN NULL ELSE (gb * 1024) \div 1000

\* timedelta(days=days), in hours.
timedelta(days) == days * 24

\* datetime.timestamp() of a datetime without tzinfo: the value is read as
\* local time of the host, so a datetime that holds UTC comes out shifted
\* by the host's offset from UTC.
timestamp(dt) == dt - utc_offset

\* int((utcnow() + timedelta(days)).timestamp())
days_to_timestamp(days, t) ==
    IF days = NULL THEN NULL ELSE timestamp(t + timedelta(days))

\* Mutant: quantize with the default rounding, ROUND_HALF_EVEN.
UnitCost_HalfEven(gb, rate) ==
    LET q == (gb * rate) \div 1000
        m == (gb * rate) % 1000
    IN  IF m > 500 \/ (m = 500 /\ q % 2 = 1) THEN q + 1 ELSE q

\* (Decimal(str(gb)) * rate).quantize(Decimal('0.01'), ROUND_HALF_UP)
UnitCost(gb, rate) == (gb * rate + 500) \div 1000

NoPricing ==
    [id |-> NULL, reseller_id |-> NULL, marzban_panel_id |-> NULL,
     pricing_plan_id |-> NULL, custom_price_per_gb |-> NULL]

\* Mutant: the generic configuration is looked up first.
get_active_pricing_for_reseller_GenericFirst(pricings, reseller_id, panel_id) ==
    LET specific == {c \in pricings : /\ c.reseller_id = reseller_id
                                      /\ c.marzban_panel_id = panel_id}
        generic  == {c \in pricings : /\ c.reseller_id = reseller_id
                                      /\ c.marzban_panel_id = NULL}
    IN  IF generic # {} THEN CHOOSE c \in generic : TRUE
        ELSE IF panel_id # NULL /\ specific # {} THEN CHOOSE c \in specific : TRUE
        ELSE NoPricing

get_active_pricing_for_reseller(pricings, reseller_id, panel_id) ==
    LET specific == {c \in pricings : /\ c.reseller_id = reseller_id
                                      /\ c.marzban_panel_id = panel_id}
        generic  == {c \in pricings : /\ c.reseller_id = reseller_id
                                      /\ c.marzban_panel_id = NULL}
    IN  IF panel_id # NULL /\ specific # {} THEN CHOOSE c \in specific : TRUE
        ELSE IF generic # {} THEN CHOOSE c \in generic : TRUE
        ELSE NoPricing

\* The phrases the transaction type is chosen by that occur in a text.  A
\* plan's name is free text: "Set data to 50GB" is the name of a plan that
\* happens to hold the first phrase.
Phrases(text) == IF text = "Set data to 50GB" THEN {"Set data to"} ELSE {}

NoPlan == [id |-> NULL, name |-> "", duration_days |-> NULL, price |-> NULL]

\* ResellerPricing.pricing_plan
pricing_plan(plans, pricing) ==
    LET ps == {pl \in plans : pl.id = pricing.pricing_plan_id}
    IN  IF pricing.pricing_plan_id # NULL /\ ps # {}
        THEN CHOOSE pl \in ps : TRUE ELSE NoPlan

get_marzban_user_by_username_and_panel(users, username, panel_id) ==
    {i \in 1..Len(users) : /\ users[i].marzban_username = username
                           /\ users[i].marzban_panel_id = panel_id}

\* Mutant: the wallet check is left out.
FundsOk_Skipped(balance, cost, allow) == TRUE

\* Mutant: a cost equal to the balance is refused.
FundsOk_Strict(balance, cost, allow) == ~(balance <= cost /\ ~allow)

\* The wallet check: the request is refused when this is FALSE.
FundsOk(balance, cost, allow) == ~(balance < cost /\ ~allow)

\* -------------------------------------------------------- handler locals
\* ResellerPricingCreate / ResellerPricingUpdate: "set" holds the fields the
\* payload carries (dict(exclude_unset=True)).
NoPricingInput ==
    [set |-> {}, reseller_id |-> NULL, marzban_panel_id |-> NULL,
     pricing_plan_id |-> NULL, custom_price_per_gb |-> NULL]

\* The summary of a synchronisation.
NoSummary ==
    [total_users_from_api |-> 0, newly_added_count |-> 0, updated_count |-> 0,
     errors |-> {}]

IdleLoc ==
    [op |-> "none", reseller |-> NULL, balance |-> 0, allow |-> FALSE,
     req |-> NoRequest, cost |-> 0, plan_id |-> NULL, pricing_id |-> NULL,
     panel |-> NULL, user_id |-> NULL, api_payload |-> NoPayload,
     has_payload |-> FALSE, parts |-> {}, response |-> NoPayload,
     checked |-> FALSE, calls |-> {}, remote_ok |-> FALSE, err |-> "",
     pricing_in |-> NoPricingInput, db_pricing |-> NoPricing,
     api_users |-> <<>>, listed |-> <<>>, found |-> NULL, summary |-> NoSummary,
     start_users |-> <<>>, api_status |-> NULL]

NoResult ==
    [status |-> 0, detail |-> "", required |-> NULL, available |-> NULL,
     username |-> "", panel |-> NULL]

Init ==
    /\ wallet_balance = OpeningBalance
    /\ allow_negative_balance = [r \in Resellers |-> r = 2]
    /\ transactions = <<>>
    /\ marzban_users = <<>>
    /\ payment_receipts = InitialReceipts
    /\ reseller_pricings = InitialPricings
    /\ pricing_plans = InitialPlans
    /\ panel_users = [pn \in Panels |-> {}]
    /\ now = 1
    /\ utc_offset = 0
    /\ pc = [p \in Procs |-> "idle"]
    /\ loc = [p \in Procs |-> IdleLoc]
    /\ result = [p \in Procs |-> NoResult]
    /\ ops = 0

\* ------------------------------------------------- errors and responses
\* Mutant: the message of the error does not carry the amounts.
ServiceError_NoAmounts(msg, l) ==
    [raised |-> "service", msg |-> msg, required |-> NULL,
     available |-> NULL, username |-> l.response.username,
     panel |-> l.panel, api_text |-> ""]

\* A MarzbanUserServiceError (raised = "service") or any other exception
\* (raised = "raw") leaving the service function; msg names the message.
ServiceError(msg, l) ==
    [raised |-> "service", msg |-> msg, required |-> l.cost,
     available |-> l.balance, username |-> l.response.username,
     panel |-> l.panel, api_text |-> ""]

ApiError(text, l) == [ServiceError("Marzban API error", l) EXCEPT !.api_text = text]

RawError(l) == [ServiceError("", l) EXCEPT !.raised = "raw"]

Response(status, detail) == [NoResult EXCEPT !.status = status, !.detail = detail]

\* What the panel answers when the username is taken, as the client words it.
ConflictTexts == {"username already exists", "user already exists"}

\* How a call to the panel fails otherwise: an HTTP error status, or no
\* answer at all (timeout, connection error).
OtherFailures == {500, 0}

\* The except clauses of the endpoint create_marzban_user_by_reseller.
RouterCreate(e) ==
    IF e.raised # "service"
    THEN Response(500, "An unexpected error occurred during user creation.")
    ELSE IF e.msg = "Insufficient wallet balance"
    THEN [Response(402, e.msg) EXCEPT !.required = e.required,
                                      !.available = e.available]
    ELSE IF e.msg \in {"Reseller does not have access",
                       "No active pricing configuration",
                       "Target Marzban panel ID",
                       "Could not retrieve credentials",
                       "Failed to authenticate with Marzban panel",
                       "Data limit (data_limit_gb) must be provided"}
    THEN Response(400, e.msg)
    ELSE IF e.msg = "Marzban API error"
    THEN IF e.api_text \in {"username already exists", "username - already exists"}
         THEN Response(409, "already exists on the panel")
         ELSE Response(502, "Error communicating with Marzban panel")
    ELSE IF e.msg = "Database error after Marzban user creation"
    THEN Response(500, "Failed to save user data after creation on Marzban.")
    ELSE Response(400, e.msg)

\* Mutant: the access of the reseller to the panel is not checked.
CreatePrecheck_NoAccessCheck(r, balance, allow, req, pricings, plans) ==
    LET active_pricing == get_active_pricing_for_reseller(pricings, r, req.marzban_panel_id)
        plan == pricing_plan(plans, active_pricing)
        base == [err |-> "", cost |-> 0, plan_id |-> NULL,
                 pricing_id |-> active_pricing.id, checked |-> FALSE]
    IN  IF FALSE
        THEN [base EXCEPT !.err = "Reseller does not have access", !.pricing_id = NULL]
        ELSE IF active_pricing.id = NULL
        THEN [base EXCEPT !.err = "No active pricing configuration"]
        ELSE IF active_pricing.custom_price_per_gb # NULL
        THEN IF req.data_limit_gb = NULL \/ req.data_limit_gb <= 0
             THEN [base EXCEPT !.err = "Data limit (data_limit_gb) must be provided"]
             ELSE LET cost == UnitCost(req.data_limit_gb, active_pricing.custom_price_per_gb)
                  IN  [base EXCEPT !.cost = cost, !.checked = TRUE,
                           !.err = IF FundsOk(balance, cost, allow) THEN ""
                                   ELSE "Insufficient wallet balance"]
        ELSE IF active_pricing.pricing_plan_id # NULL /\ plan.id # NULL
        THEN [base EXCEPT !.cost = plan.price, !.plan_id = active_pricing.pricing_plan_id,
                  !.checked = TRUE,
                  !.err = IF FundsOk(balance, plan.price, allow) THEN ""
                          ELSE "Insufficient wallet balance"]
        ELSE [base EXCEPT !.err = "Invalid pricing configuration found"]

\* ----------------------------------------------------------- createUser
\* create_marzban_user_for_reseller up to and including the wallet check:
\* the message of the error raised ("" when none) and the values computed.
CreatePrecheck(r, balance, allow, req, pricings, plans) ==
    LET active_pricing == get_active_pricing_for_reseller(pricings, r, req.marzban_panel_id)
        plan == pricing_plan(plans, active_pricing)
        base == [err |-> "", cost |-> 0, plan_id |-> NULL,
                 pricing_id |-> active_pricing.id, checked |-> FALSE]
    IN  IF req.marzban_panel_id \notin reseller_panels[r]
        THEN [base EXCEPT !.err = "Reseller does not have access", !.pricing_id = NULL]
        ELSE IF active_pricing.id = NULL
        THEN [base EXCEPT !.err = "No active pricing configuration"]
        ELSE IF active_pricing.custom_price_per_gb # NULL
        THEN IF req.data_limit_gb = NULL \/ req.data_limit_gb <= 0
             THEN [base EXCEPT !.err = "Data limit (data_limit_gb) must be provided"]
             ELSE LET cost == UnitCost(req.data_limit_gb, active_pricing.custom_price_per_gb)
                  IN  [base EXCEPT !.cost = cost, !.checked = TRUE,
                           !.err = IF FundsOk(balance, cost, allow) THEN ""
                                   ELSE "Insufficient wallet balance"]
        ELSE IF active_pricing.pricing_plan_id # NULL /\ plan.id # NULL
        THEN [base EXCEPT !.cost = plan.price, !.plan_id = active_pricing.pricing_plan_id,
                  !.checked = TRUE,
                  !.err = IF FundsOk(balance, plan.price, allow) THEN ""
                          ELSE "Insufficient wallet balance"]
        ELSE [base EXCEPT !.err = "Invalid pricing configuration found"]

\* Sending a response touches nothing shared and commutes with every step of
\* the other workers, so it is taken before any other step.
Delivered == \A q \in Procs : pc[q] # "done"

\* Worker p takes the next request: it is free, and the workers being
\* interchangeable, it is the first free one.
Accepts(p) ==
    /\ ops < MaxOps
    /\ Delivered
    /\ pc[p] = "idle"
    /\ \A q \in Procs : q < p => pc[q] # "idle"

\* The handler ends: the response is delivered.
Finish(p, l, res) ==
    /\ pc' = [pc EXCEPT ![p] = "done"]
    /\ loc' = [loc EXCEPT ![p] = l]
    /\ result' = [result EXCEPT ![p] = res]

\* The handler goes on to its next step.
Goto(p, l, label) ==
    /\ pc' = [pc EXCEPT ![p] = label]
    /\ loc' = [loc EXCEPT ![p] = l]
    /\ UNCHANGED result

\* Steps 1-3: the request arrives, the reseller row is loaded, access,
\* pricing, cost and wallet are checked.
CreateChecks(p, r, req) ==
    /\ Accepts(p)
    /\ ops' = ops + 1
    /\ LET pre == CreatePrecheck(r, wallet_balance[r], allow_negative_balance[r],
                                 req, reseller_pricings, pricing_plans)
           l == [IdleLoc EXCEPT !.op = "create", !.reseller = r,
                                !.balance = wallet_balance[r],
                                !.allow = allow_negative_balance[r],
                                !.req = req, !.panel = req.marzban_panel_id,
                                !.cost = pre.cost, !.plan_id = pre.plan_id,
                                !.pricing_id = pre.pricing_id,
                                !.checked = pre.checked, !.err = pre.err]
       IN  IF pre.err = "" THEN Goto(p, l, "create_remote")
           ELSE Finish(p, l, RouterCreate(ServiceError(pre.err, l)))
    /\ UNCHANGED <<config, panel_users, now>>

\* Mutant: the wallet is debited before the panel is called.
CreateBegin_DebitFirst(p, r, req) ==
    /\ CreateChecks(p, r, req)
    /\ wallet_balance' = [wallet_balance EXCEPT ![r] =
           @ - CreatePrecheck(r, wallet_balance[r], allow_negative_balance[r], req,
                              reseller_pricings, pricing_plans).cost]
    /\ UNCHANGED <<transactions, marzban_users, payment_receipts>>

CreateBegin(p, r, req) ==
    /\ CreateChecks(p, r, req)
    /\ UNCHANGED db

\* The user object the panel stores for a create request.
CreatedPayload(l) ==
    [username |-> l.req.username,
     expire |-> days_to_timestamp(l.req.expire_days, now),
     data_limit |-> gb_to_bytes(l.req.data_limit_gb),
     proxies |-> l.req.proxies, inbounds |-> l.req.inbounds,
     admin_id |-> marzban_admin_id[l.reseller]]

PanelHas(pn, username) == \E u \in panel_users[pn] : u.username = username

\* Step 4: credentials, token, and the create-user call.
CreateRemote(p) ==
    /\ Delivered
    /\ pc[p] = "create_remote"
    /\ LET l == loc[p]
           authed == [l EXCEPT !.calls = {"auth"}]
           called == [l EXCEPT !.calls = {"auth", "create"}]
       IN  \/ \* the panel password cannot be decrypted
              /\ Finish(p, [l EXCEPT !.err = "Could not retrieve credentials"],
                        RouterCreate(ServiceError("Could not retrieve credentials", l)))
              /\ UNCHANGED panel_users
           \/ \* the token endpoint answers without a token
              /\ Finish(p, [authed EXCEPT !.err = "Failed to authenticate with Marzban panel"],
                        RouterCreate(ServiceError("Failed to authenticate with Marzban panel", l)))
              /\ UNCHANGED panel_users
           \/ \* get_marzban_access_token raises MarzbanAPIError
              /\ Finish(p, [authed EXCEPT !.err = "MarzbanAPIError"], RouterCreate(RawError(l)))
              /\ UNCHANGED panel_users
           \/ \* the panel refuses: the username is taken
              /\ PanelHas(l.panel, l.req.username)
              /\ \E text \in ConflictTexts :
                    Finish(p, [called EXCEPT !.err = "Marzban API error",
                                             !.api_status = 409],
                           RouterCreate(ApiError(text, l)))
              /\ UNCHANGED panel_users
           \/ \* the call fails otherwise (4xx, 5xx, timeout)
              /\ \E status \in OtherFailures :
                    Finish(p, [called EXCEPT !.err = "Marzban API error",
                                             !.api_status = status],
                           RouterCreate(ApiError("other", l)))
              /\ UNCHANGED panel_users
           \/ \* the panel creates the user
              /\ ~PanelHas(l.panel, l.req.username)
              /\ panel_users' = [panel_users EXCEPT ![l.panel] = @ \cup {CreatedPayload(l)}]
              /\ \/ Goto(p, [called EXCEPT !.remote_ok = TRUE,
                                           !.response = CreatedPayload(l)], "create_commit")
                 \/ \* ... but answers with a body without a username
                    LET msg == "Failed to create user on Marzban panel or received unexpected response."
                    IN  Finish(p, [called EXCEPT !.remote_ok = TRUE, !.err = msg],
                               RouterCreate(ServiceError(msg, l)))
    /\ UNCHANGED <<db, config, now, ops>>

NewTransaction(id, reseller_id, type, amount, user_id, plan_id, pricing_id, receipt_id) ==
    [id |-> id, reseller_id |-> reseller_id, transaction_type |-> type,
     amount |-> amount, marzban_user_id |-> user_id, pricing_plan_id |-> plan_id,
     reseller_pricing_id |-> pricing_id, payment_receipt_id |-> receipt_id]

\* Mutant: the mirror of a created user is not marked as created here.
CreateCommitOk_NotMarkedLocal(p) ==
    LET l == loc[p]
        new_id == Len(marzban_users) + 1
    IN  /\ Delivered
        /\ pc[p] = "create_commit"
        /\ get_marzban_user_by_username_and_panel(
               marzban_users, l.response.username, l.panel) = {}
        /\ wallet_balance' = [wallet_balance EXCEPT ![l.reseller] = l.balance - l.cost]
        /\ marzban_users' = Append(marzban_users,
               [id |-> new_id, marzban_username |-> l.response.username,
                marzban_panel_id |-> l.panel, reseller_id |-> l.reseller,
                created_by_new_panel |-> FALSE, notes |-> l.req.note,
                last_synced_at |-> now, api_response_data |-> l.response])
        /\ transactions' = Append(transactions,
               NewTransaction(Len(transactions) + 1, l.reseller, "user_creation_cost",
                              0 - l.cost, new_id, l.plan_id, l.pricing_id, NULL))
        /\ now' = now + 1
        /\ Finish(p, [l EXCEPT !.user_id = new_id], Response(201, "created"))
        /\ UNCHANGED <<payment_receipts, config, panel_users, ops>>

\* Step 5, committed: wallet, local user and transaction in one commit.
CreateCommitOk(p) ==
    LET l == loc[p]
        new_id == Len(marzban_users) + 1
    IN  /\ Delivered
        /\ pc[p] = "create_commit"
        /\ get_marzban_user_by_username_and_panel(
               marzban_users, l.response.username, l.panel) = {}
        /\ wallet_balance' = [wallet_balance EXCEPT ![l.reseller] = l.balance - l.cost]
        /\ marzban_users' = Append(marzban_users,
               [id |-> new_id, marzban_username |-> l.response.username,
                marzban_panel_id |-> l.panel, reseller_id |-> l.reseller,
                created_by_new_panel |-> TRUE, notes |-> l.req.note,
                last_synced_at |-> now, api_response_data |-> l.response])
        /\ transactions' = Append(transactions,
               NewTransaction(Len(transactions) + 1, l.reseller, "user_creation_cost",
                              0 - l.cost, new_id, l.plan_id, l.pricing_id, NULL))
        /\ now' = now + 1
        /\ Finish(p, [l EXCEPT !.user_id = new_id], Response(201, "created"))
        /\ UNCHANGED <<payment_receipts, config, panel_users, ops>>

\* Mutant: the local user is committed on its own before the transaction
\* fails, and stays.
CreateCommitFail_MirrorKept(p) ==
    LET l == loc[p]
        msg == "Database error after Marzban user creation"
    IN  /\ Delivered
        /\ pc[p] = "create_commit"
        /\ get_marzban_user_by_username_and_panel(
               marzban_users, l.response.username, l.panel) = {}
        /\ marzban_users' = Append(marzban_users,
               [id |-> Len(marzban_users) + 1, marzban_username |-> l.response.username,
                marzban_panel_id |-> l.panel, reseller_id |-> l.reseller,
                created_by_new_panel |-> TRUE, notes |-> l.req.note,
                last_synced_at |-> now, api_response_data |-> l.response])
        /\ Finish(p, [l EXCEPT !.err = msg], RouterCreate(ServiceError(msg, l)))
        /\ UNCHANGED <<wallet_balance, transactions, payment_receipts, config,
                       panel_users, now, ops>>

\* Step 5, failed: the flush or the commit raises (the unique constraint
\* on (marzban_username, marzban_panel_id), or the database), db.rollback().
CreateCommitFail(p) ==
    LET l == loc[p]
        msg == "Database error after Marzban user creation"
    IN  /\ Delivered
        /\ pc[p] = "create_commit"
        /\ Finish(p, [l EXCEPT !.err = msg], RouterCreate(ServiceError(msg, l)))
        /\ UNCHANGED <<db, config, panel_users, now, ops>>

CreateCommit(p) == CreateCommitOk(p) \/ CreateCommitFail(p)

\* ----------------------------------------------------------- modifyUser
\* The except clauses of the endpoint modify_reseller_marzban_user_detail.
RouterModify(e) ==
    IF e.raised # "service"
    THEN Response(500, "An unexpected error occurred during user modification.")
    ELSE IF e.msg = "Insufficient wallet balance"
    THEN [Response(402, e.msg) EXCEPT !.required = e.required,
                                      !.available = e.available]
    ELSE IF e.msg = "not found or does not belong"
    THEN Response(404, e.msg)
    ELSE IF e.msg \in {"Reseller does not have access",
                       "No active pricing configuration",
                       "No suitable pricing plan found",
                       "does not match assigned plan duration",
                       "Cannot modify data_limit_gb: No custom GB pricing found",
                       "Nothing to update"}
    THEN Response(400, e.msg)
    ELSE IF e.msg = "Marzban API error"
    THEN Response(502, "Error communicating with Marzban panel")
    ELSE IF e.msg = "Database error after Marzban user modification"
    THEN Response(500, "Failed to save user data after modification on Marzban.")
    ELSE Response(400, e.msg)

\* int((max(utcnow(), utcfromtimestamp(last known expiry)) + timedelta(days))
\* .timestamp())
ExtendedExpiry(api_response_data, t, days) ==
    LET current_expire_ts == api_response_data.expire
        current_expire_dt == IF /\ current_expire_ts # NULL
                                /\ current_expire_ts > 0
                                /\ current_expire_ts > t
                             THEN current_expire_ts ELSE t
        new_expire_dt == current_expire_dt + timedelta(days)
    IN  timestamp(new_expire_dt)

\* Mutant: the plan price is charged for any number of days.
ModifyPrecheck_AnyDuration(r, balance, allow, id, req, users, pricings, plans, t) ==
    LET found == id \in 1..Len(users) /\ users[id].reseller_id = r
        user == IF found THEN users[id]
                ELSE [marzban_panel_id |-> NULL, api_response_data |-> NoPayload]
        active_pricing == get_active_pricing_for_reseller(pricings, r, user.marzban_panel_id)
        plan == pricing_plan(plans, active_pricing)
        has_data == req.data_limit_gb # NULL
        has_days == req.expire_days_to_add # NULL
        data_err ==
            IF ~has_data THEN ""
            ELSE IF req.data_limit_gb <= 0 THEN "data_limit_gb must be positive"
            ELSE IF active_pricing.id = NULL \/ active_pricing.custom_price_per_gb = NULL
            THEN "Cannot modify data_limit_gb: No custom GB pricing found"
            ELSE ""
        days_err ==
            IF ~has_days THEN ""
            ELSE IF req.expire_days_to_add <= 0 THEN "expire_days_to_add must be positive"
            ELSE IF \/ active_pricing.id = NULL
                    \/ active_pricing.pricing_plan_id = NULL
                    \/ plan.id = NULL
            THEN "No suitable pricing plan found"
            ELSE ""
        cost_data == IF has_data /\ data_err = ""
                     THEN UnitCost(req.data_limit_gb, active_pricing.custom_price_per_gb)
                     ELSE 0
        cost_renewal == IF has_days /\ days_err = "" THEN plan.price ELSE 0
        cost == cost_data + cost_renewal
        payload == [NoPayload EXCEPT
                      !.data_limit = gb_to_bytes(req.data_limit_gb),
                      !.expire = IF has_days
                                 THEN ExtendedExpiry(user.api_response_data, t,
                                                     req.expire_days_to_add)
                                 ELSE NULL,
                      !.proxies = req.proxies,
                      !.inbounds = req.inbounds]
        has_payload == payload # NoPayload
        err == IF ~found THEN "not found or does not belong"
               ELSE IF data_err # "" THEN data_err
               ELSE IF days_err # "" THEN days_err
               ELSE IF ~has_payload /\ req.note = NULL THEN "Nothing to update"
               ELSE IF cost > 0 /\ ~FundsOk(balance, cost, allow)
               THEN "Insufficient wallet balance"
               ELSE ""
    IN  [err |-> err, cost |-> cost,
         plan_id |-> IF has_days /\ days_err = "" THEN active_pricing.pricing_plan_id ELSE NULL,
         pricing_id |-> IF (has_data \/ has_days) /\ data_err = "" /\ days_err = ""
                        THEN active_pricing.id ELSE NULL,
         panel |-> user.marzban_panel_id,
         api_payload |-> payload, has_payload |-> has_payload,
         parts |-> (IF has_data THEN {"Set data to"} ELSE {})
                   \cup (IF has_days THEN {"Added"} \cup Phrases(plan.name) ELSE {}),
         checked |-> err \in {"", "Insufficient wallet balance"}]

\* Mutant: the requested data limit is added to the current one.
ModifyPrecheck_AddsToLimit(r, balance, allow, id, req, users, pricings, plans, t) ==
    LET found == id \in 1..Len(users) /\ users[id].reseller_id = r
        user == IF found THEN users[id]
                ELSE [marzban_panel_id |-> NULL, api_response_data |-> NoPayload]
        active_pricing == get_active_pricing_for_reseller(pricings, r, user.marzban_panel_id)
        plan == pricing_plan(plans, active_pricing)
        has_data == req.data_limit_gb # NULL
        has_days == req.expire_days_to_add # NULL
        data_err ==
            IF ~has_data THEN ""
            ELSE IF req.data_limit_gb <= 0 THEN "data_limit_gb must be positive"
            ELSE IF active_pricing.id = NULL \/ active_pricing.custom_price_per_gb = NULL
            THEN "Cannot modify data_limit_gb: No custom GB pricing found"
            ELSE ""
        days_err ==
            IF ~has_days THEN ""
            ELSE IF req.expire_days_to_add <= 0 THEN "expire_days_to_add must be positive"
            ELSE IF \/ active_pricing.id = NULL
                    \/ active_pricing.pricing_plan_id = NULL
                    \/ plan.id = NULL
            THEN "No suitable pricing plan found"
            ELSE IF plan.duration_days # req.expire_days_to_add
            THEN "does not match assigned plan duration"
            ELSE ""
        cost_data == IF has_data /\ data_err = ""
                     THEN UnitCost(req.data_limit_gb, active_pricing.custom_price_per_gb)
                     ELSE 0
        cost_renewal == IF has_days /\ days_err = "" THEN plan.price ELSE 0
        cost == cost_data + cost_renewal
        payload == [NoPayload EXCEPT
                      !.data_limit = IF has_data
                                     THEN user.api_response_data.data_limit
                                          + gb_to_bytes(req.data_limit_gb)
                                     ELSE NULL,
                      !.expire = IF has_days
                                 THEN ExtendedExpiry(user.api_response_data, t,
                                                     req.expire_days_to_add)
                                 ELSE NULL,
                      !.proxies = req.proxies,
                      !.inbounds = req.inbounds]
        has_payload == payload # NoPayload
        err == IF ~found THEN "not found or does not belong"
               ELSE IF data_err # "" THEN data_err
               ELSE IF days_err # "" THEN days_err
               ELSE IF ~has_payload /\ req.note = NULL THEN "Nothing to update"
               ELSE IF cost > 0 /\ ~FundsOk(balance, cost, allow)
               THEN "Insufficient wallet balance"
               ELSE ""
    IN  [err |-> err, cost |-> cost,
         plan_id |-> IF has_days /\ days_err = "" THEN active_pricing.pricing_plan_id ELSE NULL,
         pricing_id |-> IF (has_data \/ has_days) /\ data_err = "" /\ days_err = ""
                        THEN active_pricing.id ELSE NULL,
         panel |-> user.marzban_panel_id,
         api_payload |-> payload, has_payload |-> has_payload,
         parts |-> (IF has_data THEN {"Set data to"} ELSE {})
                   \cup (IF has_days THEN {"Added"} \cup Phrases(plan.name) ELSE {}),
         checked |-> err \in {"", "Insufficient wallet balance"}]

\* Mutant: the local user is looked up by id alone.
ModifyPrecheck_AnyOwner(r, balance, allow, id, req, users, pricings, plans, t) ==
    LET found == id \in 1..Len(users)
        user == IF found THEN users[id]
                ELSE [marzban_panel_id |-> NULL, api_response_data |-> NoPayload]
        active_pricing == get_active_pricing_for_reseller(pricings, r, user.marzban_panel_id)
        plan == pricing_plan(plans, active_pricing)
        has_data == req.data_limit_gb # NULL
        has_days == req.expire_days_to_add # NULL
        data_err ==
            IF ~has_data THEN ""
            ELSE IF req.data_limit_gb <= 0 THEN "data_limit_gb must be positive"
            ELSE IF active_pricing.id = NULL \/ active_pricing.custom_price_per_gb = NULL
            THEN "Cannot modify data_limit_gb: No custom GB pricing found"
            ELSE ""
        days_err ==
            IF ~has_days THEN ""
            ELSE IF req.expire_days_to_add <= 0 THEN "expire_days_to_add must be positive"
            ELSE IF \/ active_pricing.id = NULL
                    \/ active_pricing.pricing_plan_id = NULL
                    \/ plan.id = NULL
            THEN "No suitable pricing plan found"
            ELSE IF plan.duration_days # req.expire_days_to_add
            THEN "does not match assigned plan duration"
            ELSE ""
        cost_data == IF has_data /\ data_err = ""
                     THEN UnitCost(req.data_limit_gb, active_pricing.custom_price_per_gb)
                     ELSE 0
        cost_renewal == IF has_days /\ days_err = "" THEN plan.price ELSE 0
        cost == cost_data + cost_renewal
        payload == [NoPayload EXCEPT
                      !.data_limit = gb_to_bytes(req.data_limit_gb),
                      !.expire = IF has_days
                                 THEN ExtendedExpiry(user.api_response_data, t,
                                                     req.expire_days_to_add)
                                 ELSE NULL,
                      !.proxies = req.proxies,
                      !.inbounds = req.inbounds]
        has_payload == payload # NoPayload
        err == IF ~found THEN "not found or does not belong"
               ELSE IF data_err # "" THEN data_err
               ELSE IF days_err # "" THEN days_err
               ELSE IF ~has_payload /\ req.note = NULL THEN "Nothing to update"
               ELSE IF cost > 0 /\ ~FundsOk(balance, cost, allow)
               THEN "Insufficient wallet balance"
               ELSE ""
    IN  [err |-> err, cost |-> cost,
         plan_id |-> IF has_days /\ days_err = "" THEN active_pricing.pricing_plan_id ELSE NULL,
         pricing_id |-> IF (has_data \/ has_days) /\ data_err = "" /\ days_err = ""
                        THEN active_pricing.id ELSE NULL,
         panel |-> user.marzban_panel_id,
         api_payload |-> payload, has_payload |-> has_payload,
         parts |-> (IF has_data THEN {"Set data to"} ELSE {})
                   \cup (IF has_days THEN {"Added"} \cup Phrases(plan.name) ELSE {}),
         checked |-> err \in {"", "Insufficient wallet balance"}]

\* Mutant: a note alone does not count as something to update.
ModifyPrecheck_NoteIgnored(r, balance, allow, id, req, users, pricings, plans, t) ==
    LET found == id \in 1..Len(users) /\ users[id].reseller_id = r
        user == IF found THEN users[id]
                ELSE [marzban_panel_id |-> NULL, api_response_data |-> NoPayload]
        active_pricing == get_active_pricing_for_reseller(pricings, r, user.marzban_panel_id)
        plan == pricing_plan(plans, active_pricing)
        has_data == req.data_limit_gb # NULL
        has_days == req.expire_days_to_add # NULL
        data_err ==
            IF ~has_data THEN ""
            ELSE IF req.data_limit_gb <= 0 THEN "data_limit_gb must be positive"
            ELSE IF active_pricing.id = NULL \/ active_pricing.custom_price_per_gb = NULL
            THEN "Cannot modify data_limit_gb: No custom GB pricing found"
            ELSE ""
        days_err ==
            IF ~has_days THEN ""
            ELSE IF req.expire_days_to_add <= 0 THEN "expire_days_to_add must be positive"
            ELSE IF \/ active_pricing.id = NULL
                    \/ active_pricing.pricing_plan_id = NULL
                    \/ plan.id = NULL
            THEN "No suitable pricing plan found"
            ELSE IF plan.duration_days # req.expire_days_to_add
            THEN "does not match assigned plan duration"
            ELSE ""
        cost_data == IF has_data /\ data_err = ""
                     THEN UnitCost(req.data_limit_gb, active_pricing.custom_price_per_gb)
                     ELSE 0
        cost_renewal == IF has_days /\ days_err = "" THEN plan.price ELSE 0
        cost == cost_data + cost_renewal
        payload == [NoPayload EXCEPT
                      !.data_limit = gb_to_bytes(req.data_limit_gb),
                      !.expire = IF has_days
                                 THEN ExtendedExpiry(user.api_response_data, t,
                                                     req.expire_days_to_add)
                                 ELSE NULL,
                      !.proxies = req.proxies,
                      !.inbounds = req.inbounds]
        has_payload == payload # NoPayload
        err == IF ~found THEN "not found or does not belong"
               ELSE IF data_err # "" THEN data_err
               ELSE IF days_err # "" THEN days_err
               ELSE IF ~has_payload THEN "Nothing to update"
               ELSE IF cost > 0 /\ ~FundsOk(balance, cost, allow)
               THEN "Insufficient wallet balance"
               ELSE ""
    IN  [err |-> err, cost |-> cost,
         plan_id |-> IF has_days /\ days_err = "" THEN active_pricing.pricing_plan_id ELSE NULL,
         pricing_id |-> IF (has_data \/ has_days) /\ data_err = "" /\ days_err = ""
                        THEN active_pricing.id ELSE NULL,
         panel |-> user.marzban_panel_id,
         api_payload |-> payload, has_payload |-> has_payload,
         parts |-> (IF has_data THEN {"Set data to"} ELSE {})
                   \cup (IF has_days THEN {"Added"} \cup Phrases(plan.name) ELSE {}),
         checked |-> err \in {"", "Insufficient wallet balance"}]

\* Mutant: a data limit of zero is accepted.
ModifyPrecheck_ZeroLimitAllowed(r, balance, allow, id, req, users, pricings, plans, t) ==
    LET found == id \in 1..Len(users) /\ users[id].reseller_id = r
        user == IF found THEN users[id]
                ELSE [marzban_panel_id |-> NULL, api_response_data |-> NoPayload]
        active_pricing == get_active_pricing_for_reseller(pricings, r, user.marzban_panel_id)
        plan == pricing_plan(plans, active_pricing)
        has_data == req.data_limit_gb # NULL
        has_days == req.expire_days_to_add # NULL
        data_err ==
            IF ~has_data THEN ""
            ELSE IF req.data_limit_gb < 0 THEN "data_limit_gb must be positive"
            ELSE IF active_pricing.id = NULL \/ active_pricing.custom_price_per_gb = NULL
            THEN "Cannot modify data_limit_gb: No custom GB pricing found"
            ELSE ""
        days_err ==
            IF ~has_days THEN ""
            ELSE IF req.expire_days_to_add <= 0 THEN "expire_days_to_add must be positive"
            ELSE IF \/ active_pricing.id = NULL
                    \/ active_pricing.pricing_plan_id = NULL
                    \/ plan.id = NULL
            THEN "No suitable pricing plan found"
            ELSE IF plan.duration_days # req.expire_days_to_add
            THEN "does not match assigned plan duration"
            ELSE ""
        cost_data == IF has_data /\ data_err = ""
                     THEN UnitCost(req.data_limit_gb, active_pricing.custom_price_per_gb)
                     ELSE 0
        cost_renewal == IF has_days /\ days_err = "" THEN plan.price ELSE 0
        cost == cost_data + cost_renewal
        payload == [NoPayload EXCEPT
                      !.data_limit = gb_to_bytes(req.data_limit_gb),
                      !.expire = IF has_days
                                 THEN ExtendedExpiry(user.api_response_data, t,
                                                     req.expire_days_to_add)
                                 ELSE NULL,
                      !.proxies = req.proxies,
                      !.inbounds = req.inbounds]
        has_payload == payload # NoPayload
        err == IF ~found THEN "not found or does not belong"
               ELSE IF data_err # "" THEN data_err
               ELSE IF days_err # "" THEN days_err
               ELSE IF ~has_payload /\ req.note = NULL THEN "Nothing to update"
               ELSE IF cost > 0 /\ ~FundsOk(balance, cost, allow)
               THEN "Insufficient wallet balance"
               ELSE ""
    IN  [err |-> err, cost |-> cost,
         plan_id |-> IF has_days /\ days_err = "" THEN active_pricing.pricing_plan_id ELSE NULL,
         pricing_id |-> IF (has_data \/ has_days) /\ data_err = "" /\ days_err = ""
                        THEN active_pricing.id ELSE NULL,
         panel |-> user.marzban_panel_id,
         api_payload |-> payload, has_payload |-> has_payload,
         parts |-> (IF has_data THEN {"Set data to"} ELSE {})
                   \cup (IF has_days THEN {"Added"} \cup Phrases(plan.name) ELSE {}),
         checked |-> err \in {"", "Insufficient wallet balance"}]

\* Mutant: a modification of any kind needs a pricing configuration.
ModifyPrecheck_PricingAlwaysRequired(r, balance, allow, id, req, users, pricings, plans, t) ==
    LET found == id \in 1..Len(users) /\ users[id].reseller_id = r
        user == IF found THEN users[id]
                ELSE [marzban_panel_id |-> NULL, api_response_data |-> NoPayload]
        active_pricing == get_active_pricing_for_reseller(pricings, r, user.marzban_panel_id)
        plan == pricing_plan(plans, active_pricing)
        has_data == req.data_limit_gb # NULL
        has_days == req.expire_days_to_add # NULL
        data_err ==
            IF ~has_data THEN ""
            ELSE IF req.data_limit_gb <= 0 THEN "data_limit_gb must be positive"
            ELSE IF active_pricing.id = NULL \/ active_pricing.custom_price_per_gb = NULL
            THEN "Cannot modify data_limit_gb: No custom GB pricing found"
            ELSE ""
        days_err ==
            IF ~has_days THEN ""
            ELSE IF req.expire_days_to_add <= 0 THEN "expire_days_to_add must be positive"
            ELSE IF \/ active_pricing.id = NULL
                    \/ active_pricing.pricing_plan_id = NULL
                    \/ plan.id = NULL
            THEN "No suitable pricing plan found"
            ELSE IF plan.duration_days # req.expire_days_to_add
            THEN "does not match assigned plan duration"
            ELSE ""
        cost_data == IF has_data /\ data_err = ""
                     THEN UnitCost(req.data_limit_gb, active_pricing.custom_price_per_gb)
                     ELSE 0
        cost_renewal == IF has_days /\ days_err = "" THEN plan.price ELSE 0
        cost == cost_data + cost_renewal
        payload == [NoPayload EXCEPT
                      !.data_limit = gb_to_bytes(req.data_limit_gb),
                      !.expire = IF has_days
                                 THEN ExtendedExpiry(user.api_response_data, t,
                                                     req.expire_days_to_add)
                                 ELSE NULL,
                      !.proxies = req.proxies,
                      !.inbounds = req.inbounds]
        has_payload == payload # NoPayload
        err == IF ~found THEN "not found or does not belong"
               ELSE IF active_pricing.id = NULL THEN "No active pricing configuration"
               ELSE IF data_err # "" THEN data_err
               ELSE IF days_err # "" THEN days_err
               ELSE IF ~has_payload /\ req.note = NULL THEN "Nothing to update"
               ELSE IF cost > 0 /\ ~FundsOk(balance, cost, allow)
               THEN "Insufficient wallet balance"
               ELSE ""
    IN  [err |-> err, cost |-> cost,
         plan_id |-> IF has_days /\ days_err = "" THEN active_pricing.pricing_plan_id ELSE NULL,
         pricing_id |-> IF (has_data \/ has_days) /\ data_err = "" /\ days_err = ""
                        THEN active_pricing.id ELSE NULL,
         panel |-> user.marzban_panel_id,
         api_payload |-> payload, has_payload |-> has_payload,
         parts |-> (IF has_data THEN {"Set data to"} ELSE {})
                   \cup (IF has_days THEN {"Added"} \cup Phrases(plan.name) ELSE {}),
         checked |-> err \in {"", "Insufficient wallet balance"}]

\* modify_marzban_user_for_reseller up to and including the wallet check.
ModifyPrecheck(r, balance, allow, id, req, users, pricings, plans, t) ==
    LET found == id \in 1..Len(users) /\ users[id].reseller_id = r
        user == IF found THEN users[id]
                ELSE [marzban_panel_id |-> NULL, api_response_data |-> NoPayload]
        active_pricing == get_active_pricing_for_reseller(pricings, r, user.marzban_panel_id)
        plan == pricing_plan(plans, active_pricing)
        has_data == req.data_limit_gb # NULL
        has_days == req.expire_days_to_add # NULL
        data_err ==
            IF ~has_data THEN ""
            ELSE IF req.data_limit_gb <= 0 THEN "data_limit_gb must be positive"
            ELSE IF active_pricing.id = NULL \/ active_pricing.custom_price_per_gb = NULL
            THEN "Cannot modify data_limit_gb: No custom GB pricing found"
            ELSE ""
        days_err ==
            IF ~has_days THEN ""
            ELSE IF req.expire_days_to_add <= 0 THEN "expire_days_to_add must be positive"
            ELSE IF \/ active_pricing.id = NULL
                    \/ active_pricing.pricing_plan_id = NULL
                    \/ plan.id = NULL
            THEN "No suitable pricing plan found"
            ELSE IF plan.duration_days # req.expire_days_to_add
            THEN "does not match assigned plan duration"
            ELSE ""
        cost_data == IF has_data /\ data_err = ""
                     THEN UnitCost(req.data_limit_gb, active_pricing.custom_price_per_gb)
                     ELSE 0
        cost_renewal == IF has_days /\ days_err = "" THEN plan.price ELSE 0
        cost == cost_data + cost_renewal
        payload == [NoPayload EXCEPT
                      !.data_limit = gb_to_bytes(req.data_limit_gb),
                      !.expire = IF has_days
                                 THEN ExtendedExpiry(user.api_response_data, t,
                                                     req.expire_days_to_add)
                                 ELSE NULL,
                      !.proxies = req.proxies,
                      !.inbounds = req.inbounds]
        has_payload == payload # NoPayload
        err == IF ~found THEN "not found or does not belong"
               ELSE IF data_err # "" THEN data_err
               ELSE IF days_err # "" THEN days_err
               ELSE IF ~has_payload /\ req.note = NULL THEN "Nothing to update"
               ELSE IF cost > 0 /\ ~FundsOk(balance, cost, allow)
               THEN "Insufficient wallet balance"
               ELSE ""
    IN  [err |-> err, cost |-> cost,
         plan_id |-> IF has_days /\ days_err = "" THEN active_pricing.pricing_plan_id ELSE NULL,
         pricing_id |-> IF (has_data \/ has_days) /\ data_err = "" /\ days_err = ""
                        THEN active_pricing.id ELSE NULL,
         panel |-> user.marzban_panel_id,
         api_payload |-> payload, has_payload |-> has_payload,
         parts |-> (IF has_data THEN {"Set data to"} ELSE {})
                   \cup (IF has_days THEN {"Added"} \cup Phrases(plan.name) ELSE {}),
         checked |-> err \in {"", "Insufficient wallet balance"}]

\* The request arrives, the reseller row and the local user are loaded, the
\* cost is computed and the wallet checked.
ModifyChecks(p, r, id, req) ==
    /\ Accepts(p)
    /\ ops' = ops + 1
    /\ LET pre == ModifyPrecheck(r, wallet_balance[r], allow_negative_balance[r], id, req,
                                 marzban_users, reseller_pricings, pricing_plans, now)
           l == [IdleLoc EXCEPT !.op = "modify", !.reseller = r,
                                !.balance = wallet_balance[r],
                                !.allow = allow_negative_balance[r],
                                !.req = [req EXCEPT !.local_id = id],
                                !.user_id = id, !.panel = pre.panel,
                                !.cost = pre.cost, !.plan_id = pre.plan_id,
                                !.pricing_id = pre.pricing_id,
                                !.api_payload = pre.api_payload,
                                !.has_payload = pre.has_payload,
                                !.parts = pre.parts,
                                !.checked = pre.checked, !.err = pre.err]
       IN  IF pre.err # "" THEN Finish(p, l, RouterModify(ServiceError(pre.err, l)))
           ELSE IF pre.has_payload THEN Goto(p, l, "modify_remote")
           ELSE Goto(p, l, "modify_commit")
    /\ UNCHANGED <<config, panel_users, now>>

ModifyBegin(p, r, id, req) ==
    /\ ModifyChecks(p, r, id, req)
    /\ UNCHANGED db

\* PATCH: the fields present in the payload replace the panel's values.
ApplyPatch(u, patch) ==
    [f \in DOMAIN u |-> IF f # "username" /\ patch[f] # NULL THEN patch[f] ELSE u[f]]

\* Credentials, token, and the single partial-update call.
ModifyRemote(p) ==
    /\ Delivered
    /\ pc[p] = "modify_remote"
    /\ LET l == loc[p]
           username == marzban_users[l.user_id].marzban_username
           authed == [l EXCEPT !.calls = {"auth"}]
           called == [l EXCEPT !.calls = {"auth", "update"}]
       IN  \/ /\ Finish(p, [l EXCEPT !.err = "Could not retrieve credentials"],
                        RouterModify(ServiceError("Could not retrieve credentials", l)))
              /\ UNCHANGED panel_users
           \/ /\ Finish(p, [authed EXCEPT !.err = "Failed to authenticate with Marzban panel"],
                        RouterModify(ServiceError("Failed to authenticate with Marzban panel", l)))
              /\ UNCHANGED panel_users
           \/ /\ Finish(p, [authed EXCEPT !.err = "MarzbanAPIError"], RouterModify(RawError(l)))
              /\ UNCHANGED panel_users
           \/ \* the call fails (unknown user, 4xx, 5xx, timeout)
              /\ Finish(p, [called EXCEPT !.err = "Marzban API error"],
                        RouterModify(ApiError("other", l)))
              /\ UNCHANGED panel_users
           \/ \* the panel updates the user
              \E u \in panel_users[l.panel] :
                 /\ u.username = username
                 /\ LET updated == ApplyPatch(u, l.api_payload)
                    IN  /\ panel_users' = [panel_users EXCEPT ![l.panel] =
                                              (@ \ {u}) \cup {updated}]
                        /\ \/ Goto(p, [called EXCEPT !.remote_ok = TRUE,
                                                     !.response = updated], "modify_commit")
                           \/ \* ... but answers with an empty body
                              LET msg == "Failed to update user on Marzban panel or received unexpected response."
                              IN  Finish(p, [called EXCEPT !.remote_ok = TRUE, !.err = msg],
                                         RouterModify(ServiceError(msg, l)))
    /\ UNCHANGED <<db, config, now, ops>>

\* The type of the transaction of a billable modification, chosen by the
\* phrases found in the joined description parts.
ModifyTransactionType(parts) ==
    IF "Set data to" \in parts /\ "Added" \in parts THEN "user_data_renew_cost"
    ELSE IF "Set data to" \in parts THEN "user_data_topup_cost"
    ELSE IF "Added" \in parts THEN "user_renewal_cost"
    ELSE "user_config_change_cost"

\* Mutant: the stored payload is replaced also when no call was made.
ModifyCommitOk_PayloadAlwaysStored(p) ==
    LET l == loc[p]
        old == marzban_users[l.user_id]
    IN  /\ Delivered
        /\ pc[p] = "modify_commit"
        /\ IF l.cost > 0
           THEN /\ wallet_balance' = [wallet_balance EXCEPT ![l.reseller] = l.balance - l.cost]
                /\ transactions' = Append(transactions,
                       NewTransaction(Len(transactions) + 1, l.reseller,
                                      ModifyTransactionType(l.parts), 0 - l.cost,
                                      l.user_id, l.plan_id, l.pricing_id, NULL))
           ELSE UNCHANGED <<wallet_balance, transactions>>
        /\ marzban_users' = [marzban_users EXCEPT ![l.user_id] =
               [old EXCEPT !.api_response_data = l.response,
                           !.last_synced_at = now,
                           !.notes = IF l.req.note # NULL THEN l.req.note ELSE @]]
        /\ now' = now + 1
        /\ Finish(p, l, Response(200, "modified"))
        /\ UNCHANGED <<payment_receipts, config, panel_users, ops>>

\* Database updates, committed.
ModifyCommitOk(p) ==
    LET l == loc[p]
        old == marzban_users[l.user_id]
    IN  /\ Delivered
        /\ pc[p] = "modify_commit"
        /\ IF l.cost > 0
           THEN /\ wallet_balance' = [wallet_balance EXCEPT ![l.reseller] = l.balance - l.cost]
                /\ transactions' = Append(transactions,
                       NewTransaction(Len(transactions) + 1, l.reseller,
                                      ModifyTransactionType(l.parts), 0 - l.cost,
                                      l.user_id, l.plan_id, l.pricing_id, NULL))
           ELSE UNCHANGED <<wallet_balance, transactions>>
        /\ marzban_users' = [marzban_users EXCEPT ![l.user_id] =
               [old EXCEPT !.api_response_data = IF l.remote_ok THEN l.response ELSE @,
                           !.last_synced_at = now,
                           !.notes = IF l.req.note # NULL THEN l.req.note ELSE @]]
        /\ now' = now + 1
        /\ Finish(p, l, Response(200, "modified"))
        /\ UNCHANGED <<payment_receipts, config, panel_users, ops>>

\* Database updates, failed: db.rollback().
ModifyCommitFail(p) ==
    LET l == loc[p]
        msg == "Database error after Marzban user modification"
    IN  /\ Delivered
        /\ pc[p] = "modify_commit"
        /\ Finish(p, [l EXCEPT !.err = msg], RouterModify(ServiceError(msg, l)))
        /\ UNCHANGED <<db, config, panel_users, now, ops>>

ModifyCommit(p) == ModifyCommitOk(p) \/ ModifyCommitFail(p)

\* ------------------------------------------------------ receipt approval
\* approve_receipt: the receipt and the reseller row are loaded.
ApproveBegin(p, rc) ==
    /\ Accepts(p)
    /\ ops' = ops + 1
    /\ LET receipt == payment_receipts[rc]
           l == [IdleLoc EXCEPT !.op = "approve", !.reseller = receipt.reseller_id,
                                !.balance = wallet_balance[receipt.reseller_id],
                                !.req = [NoRequest EXCEPT !.receipt_id = rc]]
       IN  IF receipt.status # "pending"
           THEN Finish(p, [l EXCEPT !.err = "Receipt is not pending"],
                       Response(400, "Receipt is not pending"))
           ELSE Goto(p, l, "approve_commit")
    /\ UNCHANGED <<db, config, panel_users, now>>

\* approve_receipt: status, transaction and wallet in one commit.
ApproveCommitOk(p) ==
    LET l == loc[p]
        rc == l.req.receipt_id
    IN  /\ Delivered
        /\ pc[p] = "approve_commit"
        /\ \A i \in 1..Len(transactions) : transactions[i].payment_receipt_id # rc
        /\ payment_receipts' = [payment_receipts EXCEPT ![rc].status = "approved"]
        /\ transactions' = Append(transactions,
               NewTransaction(Len(transactions) + 1, l.reseller, "wallet_top_up",
                              payment_receipts[rc].amount, NULL, NULL, NULL, rc))
        /\ wallet_balance' = [wallet_balance EXCEPT ![l.reseller] =
                                 l.balance + payment_receipts[rc].amount]
        /\ now' = now + 1
        /\ Finish(p, l, Response(200, "approved"))
        /\ UNCHANGED <<marzban_users, config, panel_users, ops>>

\* approve_receipt: the commit raises (the unique payment_receipt_id, or the
\* database), db.rollback().
ApproveCommitFail(p) ==
    LET l == loc[p]
    IN  /\ Delivered
        /\ pc[p] = "approve_commit"
        /\ Finish(p, [l EXCEPT !.err = "Error approving receipt"],
                  Response(400, "Error approving receipt"))
        /\ UNCHANGED <<db, config, panel_users, now, ops>>

ApproveCommit(p) == ApproveCommitOk(p) \/ ApproveCommitFail(p)

\* ------------------------------------------------------------ scheduling
\* The response has been sent; the worker is free for the next request.
Return(p) ==
    /\ pc[p] = "done"
    /\ pc' = [pc EXCEPT ![p] = "idle"]
    /\ loc' = [loc EXCEPT ![p] = IdleLoc]
    /\ result' = [result EXCEPT ![p] = NoResult]
    /\ UNCHANGED <<db, config, panel_users, now, ops>>

Next ==
    \E p \in Procs :
        \/ \E r \in Resellers, req \in CreateRequests : CreateBegin(p, r, req)
        \/ CreateRemote(p)
        \/ CreateCommit(p)
        \/ \E r \in Resellers, id \in LocalIds, req \in ModifyShapes :
               ModifyBegin(p, r, id, req)
        \/ ModifyRemote(p)
        \/ ModifyCommit(p)
        \/ \E rc \in ReceiptIds : ApproveBegin(p, rc)
        \/ ApproveCommit(p)
        \/ Return(p)

Spec == Init /\ [][Next]_vars

\* ------------------------------------------------------ pricing behaviours
\* notes of a mirror added by a synchronisation ("Synced from Marzban panel.
\* Original creator admin ID: ...").
SyncNote == 2

\* The user object of a user that exists on a panel.
RemoteUser(username, r, data_limit, expire) ==
    [NoPayload EXCEPT !.username = username, !.admin_id = marzban_admin_id[r],
                      !.data_limit = data_limit, !.expire = expire]

\* The local record a synchronisation adds for a remote user.
SyncedMirror(id, pn, r, user_data, t) ==
    [id |-> id, marzban_username |-> user_data.username, marzban_panel_id |-> pn,
     reseller_id |-> r, created_by_new_panel |-> FALSE, notes |-> SyncNote,
     last_synced_at |-> t, api_response_data |-> user_data]

\* reseller_pricings as the administrator may have left them:
\*   A  reseller 1 pays 5.00/GB generically and 0.50/GB on panel 1,
\*      reseller 2 pays by plan on panel 2 only and has no configuration
\*      for panel 1;
\*   B  reseller 1 pays 5.00/GB generically, reseller 2 pays by plan
\*      generically.
PricingScenarios ==
    { { [id |-> 1, reseller_id |-> 1, marzban_panel_id |-> NULL,
         pricing_plan_id |-> NULL, custom_price_per_gb |-> 500],
        [id |-> 2, reseller_id |-> 2, marzban_panel_id |-> 2,
         pricing_plan_id |-> 1, custom_price_per_gb |-> NULL],
        [id |-> 3, reseller_id |-> 1, marzban_panel_id |-> 1,
         pricing_plan_id |-> NULL, custom_price_per_gb |-> 50] },
      InitialPricings }

\* ResellerMarzbanUserCreateRequest: data limits in thousandths of a GB,
\* validities in days, either may be absent.
PricingCreateRequests ==
    { [NoRequest EXCEPT !.marzban_panel_id = pn, !.username = "u3",
                        !.data_limit_gb = x[1], !.expire_days = x[2]] :
        pn \in Panels,
        x \in { <<2000, 30>>, <<2333, 30>>, <<2330, 30>>,
                <<2000, 15>>, <<2000, NULL>>, <<NULL, 30>> } }

\* ResellerMarzbanUserUpdateRequest: a new data limit or days to add.
PricingModifyShapes ==
    { [NoRequest EXCEPT !.data_limit_gb = gb] : gb \in {2333, 0} }
    \cup { [NoRequest EXCEPT !.expire_days_to_add = d] : d \in {30, 15, 0} }

\* Each reseller has one user on panel 1, mirrored by an earlier
\* synchronisation; the pricing is one of the scenarios.
InitPricing ==
    /\ wallet_balance = OpeningBalance
    /\ allow_negative_balance = [r \in Resellers |-> r = 2]
    /\ transactions = <<>>
    /\ marzban_users = << SyncedMirror(1, 1, 1, RemoteUser("u1", 1, 1024, NULL), 0),
                          SyncedMirror(2, 1, 2, RemoteUser("u2", 2, 1024, NULL), 0) >>
    /\ payment_receipts = InitialReceipts
    /\ reseller_pricings \in PricingScenarios
    /\ pricing_plans = InitialPlans
    /\ panel_users = [pn \in Panels |->
                         IF pn = 1 THEN { RemoteUser("u1", 1, 1024, NULL),
                                          RemoteUser("u2", 2, 1024, NULL) }
                         ELSE {}]
    /\ now = 1
    /\ utc_offset = 0
    /\ pc = [p \in Procs |-> "idle"]
    /\ loc = [p \in Procs |-> IdleLoc]
    /\ result = [p \in Procs |-> NoResult]
    /\ ops = 0

\* One request at a time; every reseller modifies its own user.
NextPricing ==
    \E p \in {1} :
        \/ \E r \in Resellers, req \in PricingCreateRequests : CreateBegin(p, r, req)
        \/ CreateRemote(p)
        \/ CreateCommit(p)
        \/ \E r \in Resellers, req \in PricingModifyShapes : ModifyBegin(p, r, r, req)
        \/ ModifyRemote(p)
        \/ ModifyCommit(p)
        \/ Return(p)

SpecPricing == InitPricing /\ [][NextPricing]_vars

\* ================================================================ claims
RECURSIVE SumAmounts(_, _, _)
\* Sum of the amounts of the first n transactions that belong to reseller r.
SumAmounts(txs, r, n) ==
    IF n = 0 THEN 0
    ELSE SumAmounts(txs, r, n - 1)
         + (IF txs[n].reseller_id = r THEN txs[n].amount ELSE 0)

Debits(r) == {i \in 1..Len(transactions) :
                 transactions[i].reseller_id = r /\ transactions[i].amount < 0}

Billing(p) == loc[p].op \in {"create", "modify"}

\* The wallet check as the specification words it.
SpecFundsOk(balance, cost, allow) == balance - cost >= 0 \/ allow

\* C1: a reseller whose allow_negative_balance is false never has a negative
\* wallet balance, whatever the interleaving of createUser, modifyUser and
\* receipt approval.
C1_NonNegativeBalance ==
    \A r \in Resellers : ~allow_negative_balance[r] => wallet_balance[r] >= 0

\* Two debits of reseller 1 (opening balance 1000, every debit 1000) are
\* committed: their funds checks overlapped.
C1_Witness ==
    /\ ~allow_negative_balance[1]
    /\ Cardinality(Debits(1)) >= 2

\* C2: each wallet balance equals the opening balance plus the sum of the
\* reseller's ledger amounts.
C2_BalanceMatchesLedger ==
    \A r \in Resellers :
        wallet_balance[r] = OpeningBalance[r] + SumAmounts(transactions, r, Len(transactions))

\* C3: a debit is committed only if, at the moment of the commit, the
\* committed balance covers the cost or negative balance is allowed.
C3_CommitRevalidatesFunds ==
    [][\A p \in Procs :
          ( /\ pc[p] \in {"create_commit", "modify_commit"}
            /\ pc'[p] = "done"
            /\ Len(transactions') > Len(transactions) )
          => SpecFundsOk(wallet_balance[loc[p].reseller], loc[p].cost,
                         allow_negative_balance[loc[p].reseller])]_vars

\* C4: when the funds check fails the caller gets InsufficientFunds (402)
\* with the required and the available amount, no panel call has been
\* issued, and wallet, ledger, mirrors and panel are unchanged.
C4_InsufficientFundsIsClean ==
    [][\A p \in Procs :
          ( /\ Accepts(p)
            /\ ops' = ops + 1
            /\ pc'[p] = "done"
            /\ Billing(p)'
            /\ loc'[p].checked
            /\ ~SpecFundsOk(loc'[p].balance, loc'[p].cost, loc'[p].allow) )
          => /\ result'[p].status = 402
             /\ result'[p].required = loc'[p].cost
             /\ result'[p].available = wallet_balance[loc'[p].reseller]
             /\ loc'[p].calls = {}
             /\ db' = db
             /\ panel_users' = panel_users]_vars

\* The scenario of the specification: balance 10.00, 3 GB at 5.00/GB.
C4_Witness ==
    \E p \in Procs :
        /\ pc[p] = "done"
        /\ loc[p].op = "create"
        /\ result[p].status = 402
        /\ result[p].required = 1500
        /\ result[p].available = 1000

\* C5: the funds check refuses exactly when balance - cost < 0 and negative
\* balance is not allowed.
C5_FundsCheckExact ==
    \A p \in Procs :
        (Billing(p) /\ loc[p].checked)
        => ( (loc[p].err = "Insufficient wallet balance")
             <=> ~SpecFundsOk(loc[p].balance, loc[p].cost, loc[p].allow) )

\* A cost equal to the balance has been accepted for a reseller that may not
\* go negative, and a cost above the balance for one that may.
C5_Witness ==
    /\ \E p \in Procs :
          /\ Billing(p) /\ loc[p].checked /\ loc[p].err = "" /\ pc[p] # "done"
          /\ ~loc[p].allow /\ loc[p].cost = loc[p].balance /\ loc[p].cost > 0
    /\ \E q \in Procs :
          /\ Billing(q) /\ loc[q].checked /\ loc[q].err = "" /\ pc[q] # "done"
          /\ loc[q].allow /\ loc[q].cost > loc[q].balance

\* C6: a createUser changes wallet, ledger or mirrors only in its commit
\* step, after the panel has answered the create call with success.
C6_LocalEffectsAfterRemoteSuccess ==
    [][\A p \in Procs :
          ( /\ (pc'[p] # pc[p] \/ loc'[p] # loc[p])
            /\ (loc[p].op = "create" \/ loc'[p].op = "create")
            /\ db' # db )
          => /\ pc[p] = "create_commit"
             /\ loc[p].remote_ok
             /\ "create" \in loc[p].calls]_vars

\* A createUser ends with its commit while another one, whose create call
\* has been accepted by the panel, has not reached its commit yet.
C6_Witness ==
    \E p, q \in Procs :
        /\ pc[p] = "done" /\ loc[p].op = "create" /\ result[p].status = 201
        /\ pc[q] = "create_commit" /\ loc[q].remote_ok
        /\ loc[q].reseller = loc[p].reseller

CreationTxs(id) == {i \in 1..Len(transactions) :
                       /\ transactions[i].transaction_type = "user_creation_cost"
                       /\ transactions[i].marzban_user_id = id}

\* C7: the commit phase of a billable operation applies the debit, the
\* ledger entry and the mirror write together or not at all; a locally
\* created mirror and its creation entry exist only together.
C7_CommitAllOrNothing ==
    [][ /\ \A p \in Procs :
            ( /\ pc[p] \in {"create_commit", "modify_commit"}
              /\ pc'[p] = "done"
              /\ (loc[p].op = "create" \/ loc[p].cost > 0) )
            => LET l == loc[p]
               IN  \/ /\ wallet_balance'[l.reseller] = l.balance - l.cost
                      /\ Len(transactions') = Len(transactions) + 1
                      /\ transactions'[Len(transactions')].amount = 0 - l.cost
                      /\ IF l.op = "create"
                         THEN Len(marzban_users') = Len(marzban_users) + 1
                         ELSE /\ Len(marzban_users') = Len(marzban_users)
                              /\ marzban_users'[l.user_id] # marzban_users[l.user_id]
                   \/ db' = db
        /\ \A id \in 1..Len(marzban_users') :
              marzban_users'[id].created_by_new_panel
              <=> Cardinality({i \in 1..Len(transactions') :
                     /\ transactions'[i].transaction_type = "user_creation_cost"
                     /\ transactions'[i].marzban_user_id = id}) = 1
        /\ \A i \in 1..Len(transactions') :
              transactions'[i].amount < 0
              => transactions'[i].marzban_user_id \in 1..Len(marzban_users')
      ]_vars

\* A commit failed after the panel had created the user, and a commit of
\* another createUser went through.
C7_Witness ==
    /\ \E p \in Procs :
          /\ pc[p] = "done"
          /\ loc[p].err = "Database error after Marzban user creation"
    /\ \E i \in 1..Len(transactions) :
          transactions[i].transaction_type = "user_creation_cost"

PostRemoteCommitFailureDetails ==
    {"Failed to save user data after creation on Marzban.",
     "Failed to save user data after modification on Marzban."}

\* C8: when the remote mutation succeeded and the invocation does not
\* return success, the caller gets the distinct post-remote commit failure,
\* naming the remote username and the panel.
C8_PostRemoteFailureDistinct ==
    \A p \in Procs :
        ( /\ pc[p] = "done"
          /\ Billing(p)
          /\ loc[p].remote_ok
          /\ result[p].status \notin {200, 201} )
        => /\ result[p].status = 500
           /\ result[p].detail \in PostRemoteCommitFailureDetails
           /\ result[p].username # ""
           /\ result[p].panel = loc[p].panel

\* C9: a createUser that returns success has decreased the balance by the
\* cost, added one locally created mirror holding the panel's response, and
\* appended one ledger entry of -cost linked to the mirror, to the pricing
\* config, and to the plan exactly when the pricing is plan-based.
C9_CreateSuccessEffects ==
    [][\A p \in Procs :
          ( /\ pc[p] = "create_commit"
            /\ pc'[p] = "done"
            /\ result'[p].status = 201 )
          => LET l == loc[p]
                 n == Len(marzban_users')
                 m == marzban_users'[n]
                 t == transactions'[Len(transactions')]
                 pricing == get_active_pricing_for_reseller(
                                reseller_pricings, l.reseller, l.panel)
             IN  /\ wallet_balance'[l.reseller] = wallet_balance[l.reseller] - l.cost
                 /\ \A r \in Resellers \ {l.reseller} :
                        wallet_balance'[r] = wallet_balance[r]
                 /\ n = Len(marzban_users) + 1
                 /\ \A i \in 1..Len(marzban_users) : marzban_users'[i] = marzban_users[i]
                 /\ m.marzban_username = l.response.username
                 /\ m.marzban_panel_id = l.panel
                 /\ m.reseller_id = l.reseller
                 /\ m.created_by_new_panel
                 /\ m.api_response_data = l.response
                 /\ Len(transactions') = Len(transactions) + 1
                 /\ \A i \in 1..Len(transactions) : transactions'[i] = transactions[i]
                 /\ t.reseller_id = l.reseller
                 /\ t.amount = 0 - l.cost
                 /\ t.marzban_user_id = m.id
                 /\ t.reseller_pricing_id = pricing.id
                 /\ (t.pricing_plan_id # NULL <=> pricing.pricing_plan_id # NULL)
                 /\ (t.pricing_plan_id # NULL => t.pricing_plan_id = pricing.pricing_plan_id)
      ]_vars

\* C10: a modifyUser that extends the expiry by the plan's duration and
\* returns success has decreased the balance by plan.price and appended
\* exactly one ledger entry, of -plan.price, linked to the plan and the
\* mirror.
C10_RenewalChargesPlanPrice ==
    [][\A p \in Procs :
          ( /\ pc[p] = "modify_commit"
            /\ pc'[p] = "done"
            /\ result'[p].status = 200
            /\ loc[p].req.expire_days_to_add # NULL
            /\ loc[p].req.data_limit_gb = NULL )
          => LET l == loc[p]
                 pricing == get_active_pricing_for_reseller(
                                reseller_pricings, l.reseller, l.panel)
                 plan == pricing_plan(pricing_plans, pricing)
                 t == transactions'[Len(transactions')]
             IN  /\ l.req.expire_days_to_add = plan.duration_days
                 /\ wallet_balance'[l.reseller] = wallet_balance[l.reseller] - plan.price
                 /\ Len(transactions') = Len(transactions) + 1
                 /\ \A i \in 1..Len(transactions) : transactions'[i] = transactions[i]
                 /\ t.amount = 0 - plan.price
                 /\ t.reseller_id = l.reseller
                 /\ t.pricing_plan_id = plan.id
                 /\ t.marzban_user_id = l.user_id
      ]_vars

\* -------------------------------------------- pricing administration
PricingFields == {"marzban_panel_id", "pricing_plan_id", "custom_price_per_gb"}

\* ResellerPricingCreate payloads of the administrator.
PricingCreateInputs ==
    { [NoPricingInput EXCEPT !.set = PricingFields, !.reseller_id = r,
                             !.marzban_panel_id = pn, !.pricing_plan_id = x[1],
                             !.custom_price_per_gb = x[2]] :
        r \in Resellers, pn \in {NULL, 1},
        x \in { <<1, NULL>>, <<NULL, 700>>, <<1, 700>>, <<NULL, NULL>> } }

\* ResellerPricingUpdate payloads: the fields carried and their values.
PricingUpdateInputs ==
    { [NoPricingInput EXCEPT !.set = {"pricing_plan_id"}, !.pricing_plan_id = 1],
      [NoPricingInput EXCEPT !.set = {"pricing_plan_id"}],
      [NoPricingInput EXCEPT !.set = {"custom_price_per_gb"}, !.custom_price_per_gb = 700],
      [NoPricingInput EXCEPT !.set = {"custom_price_per_gb"}],
      [NoPricingInput EXCEPT !.set = {"pricing_plan_id", "custom_price_per_gb"},
                             !.pricing_plan_id = 1, !.custom_price_per_gb = 700],
      [NoPricingInput EXCEPT !.set = {"marzban_panel_id"}, !.marzban_panel_id = 1],
      [NoPricingInput EXCEPT !.set = {"marzban_panel_id"}] }

\* _validate_pricing_input for a ResellerPricingCreate: the ValueError raised.
validate_pricing_input(pricing_in) ==
    IF pricing_in.pricing_plan_id # NULL /\ pricing_in.custom_price_per_gb # NULL
    THEN "Cannot set both pricing_plan_id and custom_price_per_gb. Choose one."
    ELSE IF pricing_in.pricing_plan_id = NULL /\ pricing_in.custom_price_per_gb = NULL
    THEN "Either pricing_plan_id or custom_price_per_gb must be set."
    ELSE ""

\* The rows another row of the same (reseller, panel) conflicts with.
SamePair(pricings, reseller_id, panel_id, id) ==
    {c \in pricings : /\ c.reseller_id = reseller_id
                      /\ c.marzban_panel_id = panel_id
                      /\ c.id # id}

\* uq_reseller_panel_pricing as the database enforces it: rows whose
\* marzban_panel_id is NULL never conflict.
UniqueViolation(pricings, reseller_id, panel_id, id) ==
    panel_id # NULL /\ SamePair(pricings, reseller_id, panel_id, id) # {}

\* The foreign key of pricing_plan_id.
ForeignKeyViolation(plans, plan_id) ==
    plan_id # NULL /\ \A pl \in plans : pl.id # plan_id

\* create_reseller_pricing up to the query for an existing configuration.
PricingCreateBegin(p, pricing_in) ==
    /\ Accepts(p)
    /\ ops' = ops + 1
    /\ LET verr == validate_pricing_input(pricing_in)
           l == [IdleLoc EXCEPT !.op = "pricing_create", !.pricing_in = pricing_in,
                                !.reseller = pricing_in.reseller_id]
       IN  IF verr # "" THEN Finish(p, [l EXCEPT !.err = verr], Response(400, verr))
           ELSE IF SamePair(reseller_pricings, pricing_in.reseller_id,
                            pricing_in.marzban_panel_id, NULL) # {}
           THEN Finish(p, [l EXCEPT !.err = "IntegrityError"],
                       Response(409, "Database integrity error. This pricing configuration might conflict with an existing one."))
           ELSE Goto(p, l, "pricing_create_commit")
    /\ UNCHANGED <<db, config, panel_users, now>>

\* create_reseller_pricing: db.add, db.commit; the router turns an
\* IntegrityError into 409.
PricingCreateCommit(p) ==
    LET l == loc[p]
        pricing_in == l.pricing_in
    IN  /\ Delivered
        /\ pc[p] = "pricing_create_commit"
        /\ IF UniqueViolation(reseller_pricings, pricing_in.reseller_id,
                              pricing_in.marzban_panel_id, NULL)
           THEN /\ Finish(p, [l EXCEPT !.err = "IntegrityError"],
                          Response(409, "A pricing configuration for this reseller and Marzban panel (or generic) already exists."))
                /\ UNCHANGED reseller_pricings
           ELSE IF ForeignKeyViolation(pricing_plans, pricing_in.pricing_plan_id)
           THEN /\ Finish(p, [l EXCEPT !.err = "IntegrityError"],
                          Response(409, "Database integrity error. This pricing configuration might conflict with an existing one."))
                /\ UNCHANGED reseller_pricings
           ELSE /\ reseller_pricings' = reseller_pricings \cup
                       { [id |-> Cardinality(reseller_pricings) + 1,
                          reseller_id |-> pricing_in.reseller_id,
                          marzban_panel_id |-> pricing_in.marzban_panel_id,
                          pricing_plan_id |-> pricing_in.pricing_plan_id,
                          custom_price_per_gb |-> pricing_in.custom_price_per_gb] }
                /\ Finish(p, l, Response(201, "created"))
        /\ UNCHANGED <<db, allow_negative_balance, utc_offset, pricing_plans, panel_users, now, ops>>

\* update_data after lines 96-106: setting one pricing field to a value adds
\* an explicit None for the other field when the payload does not carry it.
update_data(pricing_in) ==
    IF "pricing_plan_id" \in pricing_in.set /\ pricing_in.pricing_plan_id # NULL
    THEN [pricing_in EXCEPT !.set = @ \cup {"custom_price_per_gb"}]
    ELSE IF /\ "custom_price_per_gb" \in pricing_in.set
            /\ pricing_in.custom_price_per_gb # NULL
    THEN [pricing_in EXCEPT !.set = @ \cup {"pricing_plan_id"}]
    ELSE pricing_in

\* The ValueError of update_reseller_pricing (lines 96-112).
UpdateValueError(pricing_in, db_pricing) ==
    LET plan_given == "pricing_plan_id" \in pricing_in.set
        price_given == "custom_price_per_gb" \in pricing_in.set
        plan0 == IF plan_given THEN pricing_in.pricing_plan_id
                 ELSE db_pricing.pricing_plan_id
        price0 == IF price_given THEN pricing_in.custom_price_per_gb
                  ELSE db_pricing.custom_price_per_gb
        final_plan_id ==
            IF plan_given /\ pricing_in.pricing_plan_id # NULL THEN plan0
            ELSE IF price_given /\ pricing_in.custom_price_per_gb # NULL THEN NULL
            ELSE plan0
        final_custom_price ==
            IF plan_given /\ pricing_in.pricing_plan_id # NULL THEN NULL ELSE price0
    IN  IF final_plan_id # NULL /\ final_custom_price # NULL
        THEN "Cannot set both pricing_plan_id and custom_price_per_gb. Choose one."
        ELSE IF final_plan_id = NULL /\ final_custom_price = NULL
        THEN "Either pricing_plan_id or custom_price_per_gb must be set."
        ELSE ""

\* update_reseller_pricing up to the query for a conflicting configuration.
PricingUpdateBegin(p, pricing_id, pricing_in) ==
    /\ Accepts(p)
    /\ ops' = ops + 1
    /\ LET found == {c \in reseller_pricings : c.id = pricing_id}
           db_pricing == IF found # {} THEN CHOOSE c \in found : TRUE ELSE NoPricing
           verr == UpdateValueError(pricing_in, db_pricing)
           l == [IdleLoc EXCEPT !.op = "pricing_update", !.pricing_id = pricing_id,
                                !.pricing_in = update_data(pricing_in),
                                !.db_pricing = db_pricing,
                                !.reseller = db_pricing.reseller_id]
       IN  IF found = {}
           THEN Finish(p, [l EXCEPT !.err = "not found"],
                       Response(404, "Reseller pricing configuration not found"))
           ELSE IF verr # "" THEN Finish(p, [l EXCEPT !.err = verr], Response(400, verr))
           ELSE IF /\ "marzban_panel_id" \in pricing_in.set
                   /\ pricing_in.marzban_panel_id # db_pricing.marzban_panel_id
                   /\ SamePair(reseller_pricings, db_pricing.reseller_id,
                               pricing_in.marzban_panel_id, pricing_id) # {}
           THEN Finish(p, [l EXCEPT !.err = "IntegrityError"],
                       Response(409, "Database integrity error during update."))
           ELSE Goto(p, l, "pricing_update_commit")
    /\ UNCHANGED <<db, config, panel_users, now>>

\* update_reseller_pricing: setattr for every key of update_data, db.commit.
\* The UPDATE carries the attributes whose value differs from the loaded one.
PricingUpdateCommit(p) ==
    LET l == loc[p]
        upd == l.pricing_in
        old == l.db_pricing
        cur == CHOOSE c \in reseller_pricings : c.id = l.pricing_id
        row == [f \in DOMAIN cur |->
                   IF f \in upd.set /\ upd[f] # old[f] THEN upd[f] ELSE cur[f]]
    IN  /\ Delivered
        /\ pc[p] = "pricing_update_commit"
        /\ IF /\ row.marzban_panel_id # cur.marzban_panel_id
              /\ UniqueViolation(reseller_pricings, row.reseller_id,
                                 row.marzban_panel_id, row.id)
           THEN /\ Finish(p, [l EXCEPT !.err = "IntegrityError"],
                          Response(409, "Updating this configuration would conflict with an existing one for the same reseller and Marzban panel."))
                /\ UNCHANGED reseller_pricings
           ELSE IF /\ row.pricing_plan_id # cur.pricing_plan_id
                   /\ ForeignKeyViolation(pricing_plans, row.pricing_plan_id)
           THEN /\ Finish(p, [l EXCEPT !.err = "IntegrityError"],
                          Response(409, "Database integrity error during update."))
                /\ UNCHANGED reseller_pricings
           ELSE /\ reseller_pricings' = (reseller_pricings \ {cur}) \cup {row}
                /\ Finish(p, l, Response(200, "updated"))
        /\ UNCHANGED <<db, allow_negative_balance, utc_offset, pricing_plans, panel_users, now, ops>>

\* delete_plan: the plan row goes; the foreign keys of reseller_pricings and
\* transactions are ON DELETE SET NULL.
PlanDelete(p, plan_id) ==
    /\ Accepts(p)
    /\ ops' = ops + 1
    /\ LET l == [IdleLoc EXCEPT !.op = "plan_delete", !.plan_id = plan_id]
       IN  IF \E pl \in pricing_plans : pl.id = plan_id
           THEN /\ pricing_plans' = {pl \in pricing_plans : pl.id # plan_id}
                /\ reseller_pricings' =
                       { IF c.pricing_plan_id = plan_id
                         THEN [c EXCEPT !.pricing_plan_id = NULL] ELSE c :
                         c \in reseller_pricings }
                /\ transactions' =
                       [i \in DOMAIN transactions |->
                           IF transactions[i].pricing_plan_id = plan_id
                           THEN [transactions[i] EXCEPT !.pricing_plan_id = NULL]
                           ELSE transactions[i]]
                /\ Finish(p, l, Response(200, "deleted"))
           ELSE /\ Finish(p, [l EXCEPT !.err = "not found"],
                          Response(404, "Pricing plan not found"))
                /\ UNCHANGED <<pricing_plans, reseller_pricings, transactions>>
    /\ UNCHANGED <<wallet_balance, marzban_users, payment_receipts,
                   allow_negative_balance, utc_offset, panel_users, now>>

\* A new installation: one plan, no pricing configuration yet.
InitConfig ==
    /\ wallet_balance = OpeningBalance
    /\ allow_negative_balance = [r \in Resellers |-> r = 2]
    /\ transactions = <<>>
    /\ marzban_users = <<>>
    /\ payment_receipts = InitialReceipts
    /\ reseller_pricings = {}
    /\ pricing_plans = InitialPlans
    /\ panel_users = [pn \in Panels |-> {}]
    /\ now = 1
    /\ utc_offset = 0
    /\ pc = [p \in Procs |-> "idle"]
    /\ loc = [p \in Procs |-> IdleLoc]
    /\ result = [p \in Procs |-> NoResult]
    /\ ops = 0

NextConfig ==
    \E p \in Procs :
        \/ \E pricing_in \in PricingCreateInputs : PricingCreateBegin(p, pricing_in)
        \/ PricingCreateCommit(p)
        \/ \E id \in {1, 2}, pricing_in \in PricingUpdateInputs :
               PricingUpdateBegin(p, id, pricing_in)
        \/ PricingUpdateCommit(p)
        \/ \E pl \in InitialPlans : PlanDelete(p, pl.id)
        \/ Return(p)

SpecConfig == InitConfig /\ [][NextConfig]_vars

\* ----------------------------------------------------- synchronisation
\* The elements of a finite set in some order.
RECURSIVE SetToSeq(_)
SetToSeq(S) ==
    IF S = {} THEN <<>>
    ELSE LET x == CHOOSE y \in S : TRUE IN <<x>> \o SetToSeq(S \ {x})

\* get_marzban_users: the users of the panel whose creator_admin_id is the
\* reseller's marzban_admin_id.
get_marzban_users(users, admin_id) ==
    SetToSeq({u \in users : u.admin_id = admin_id})

\* The details a panel gives when it refuses the token request.
TokenErrorDetails == {"Incorrect username or password", "Authentication failed"}

\* admin_sync.py lines 45-46: the errors the router treats as critical.
CriticalErrors ==
    { "An unexpected error during sync: Authentication failed for panel",
      "Marzban API Error: Failed to get Marzban token: Authentication failed",
      "Could not retrieve/decrypt password for panel" }

\* sync_marzban_users_for_panel_and_reseller, given the returned summary: the
\* HTTPException raised for a critical error is caught by the handler's own
\* "except Exception" and becomes a 500.
RouterSync(summary) ==
    IF summary.errors \cap CriticalErrors # {}
    THEN Response(500, "An unexpected server error occurred during sync")
    ELSE Response(200, "summary")

\* The synchronisation is requested for a reseller and a panel.
SyncBegin(p, r, pn) ==
    /\ Accepts(p)
    /\ ops' = ops + 1
    /\ Goto(p, [IdleLoc EXCEPT !.op = "sync", !.reseller = r, !.panel = pn], "sync_fetch")
    /\ UNCHANGED <<db, config, panel_users, now>>

\* Credentials, token and the list of the remote users (lines 68-84).
SyncFetch(p) ==
    /\ Delivered
    /\ pc[p] = "sync_fetch"
    /\ LET l == loc[p]
           authed == [l EXCEPT !.calls = {"auth"}]
           called == [l EXCEPT !.calls = {"auth", "list"}]
           api_users == get_marzban_users(panel_users[l.panel], marzban_admin_id[l.reseller])
           Failed(ll, errors) ==
               LET summary == [NoSummary EXCEPT !.errors = errors]
               IN  Finish(p, [ll EXCEPT !.summary = summary, !.err = "sync errors"],
                          RouterSync(summary))
       IN  \/ \* the panel password cannot be decrypted
              Finish(p, [l EXCEPT !.err = "Missing credentials"],
                     Response(400, "Missing credentials for panel"))
           \/ \* the token endpoint answers without a token
              Failed(authed, { "Failed to get access token for panel",
                               "An unexpected error during sync: Authentication failed for panel" })
           \/ \* the token endpoint refuses: MarzbanAPIError
              \E detail \in TokenErrorDetails :
                 Failed(authed,
                        { IF detail = "Authentication failed"
                          THEN "Marzban API Error: Failed to get Marzban token: Authentication failed"
                          ELSE "Marzban API Error: Failed to get Marzban token" })
           \/ \* the list call fails: MarzbanAPIError
              Failed(called, {"Marzban API Error: Failed to get Marzban users"})
           \/ \* the panel lists its users
              Goto(p, [called EXCEPT !.api_users = api_users, !.listed = api_users,
                                     !.start_users = marzban_users,
                                     !.summary = [NoSummary EXCEPT
                                         !.total_users_from_api = Len(api_users)]],
                   "sync_item")
    /\ UNCHANGED <<db, config, panel_users, now, ops>>


\* The summary goes back to the caller.
SyncFinish(p, l) == Finish(p, l, RouterSync(l.summary))

\* The "except Exception" of the loop: the error is recorded and the
\* summary returned.
SyncAbort(p, l) ==
    LET msg == "An unexpected error during sync"
    IN  SyncFinish(p, [l EXCEPT !.summary.errors = @ \cup {msg}, !.err = msg])

\* One remote user of the list (lines 85-96): skipped without a username,
\* else looked up by username and panel.
SyncItem(p) ==
    /\ Delivered
    /\ pc[p] = "sync_item"
    /\ LET l == loc[p]
       IN  IF l.api_users = <<>> THEN SyncFinish(p, l)
           ELSE LET user_data == Head(l.api_users)
                    found == get_marzban_user_by_username_and_panel(
                                 marzban_users, user_data.username, l.panel)
                IN  IF user_data.username = ""
                    THEN Goto(p, [l EXCEPT !.api_users = Tail(@),
                                           !.summary.errors = @ \cup
                                               {"User data from API missing username"}],
                              "sync_item")
                    ELSE Goto(p, [l EXCEPT !.found =
                                      IF found = {} THEN NULL ELSE CHOOSE i \in found : TRUE],
                              "sync_write")
    /\ UNCHANGED <<db, config, panel_users, now, ops>>

\* Mutant: the table has no unique constraint on (username, panel).
SyncWrite_NoUniqueConstraint(p) ==
    /\ Delivered
    /\ pc[p] = "sync_write"
    /\ LET l == loc[p]
           user_data == Head(l.api_users)
           next == [l EXCEPT !.api_users = Tail(@), !.found = NULL]
       IN  \/ /\ l.found # NULL
              /\ marzban_users' = [marzban_users EXCEPT
                     ![l.found].api_response_data = user_data,
                     ![l.found].last_synced_at = now]
              /\ Goto(p, [next EXCEPT !.summary.updated_count = @ + 1], "sync_item")
              /\ now' = now + 1
           \/ /\ l.found = NULL
              /\ marzban_users' = Append(marzban_users,
                     SyncedMirror(Len(marzban_users) + 1, l.panel, l.reseller, user_data, now))
              /\ Goto(p, [next EXCEPT !.summary.newly_added_count = @ + 1], "sync_item")
              /\ now' = now + 1
           \/ /\ SyncAbort(p, l)
              /\ UNCHANGED <<marzban_users, now>>
    /\ UNCHANGED <<wallet_balance, transactions, payment_receipts, config, panel_users, ops>>

\* Mutant: a user found on the panel is charged like a created one.
SyncWrite_ChargesNewUser(p) ==
    /\ Delivered
    /\ pc[p] = "sync_write"
    /\ LET l == loc[p]
           user_data == Head(l.api_users)
           next == [l EXCEPT !.api_users = Tail(@), !.found = NULL]
       IN  \/ /\ l.found # NULL
              /\ marzban_users' = [marzban_users EXCEPT
                     ![l.found].api_response_data = user_data,
                     ![l.found].last_synced_at = now]
              /\ Goto(p, [next EXCEPT !.summary.updated_count = @ + 1], "sync_item")
              /\ now' = now + 1
              /\ UNCHANGED <<wallet_balance, transactions>>
           \/ /\ l.found = NULL
              /\ get_marzban_user_by_username_and_panel(
                     marzban_users, user_data.username, l.panel) = {}
              /\ marzban_users' = Append(marzban_users,
                     SyncedMirror(Len(marzban_users) + 1, l.panel, l.reseller, user_data, now))
              /\ wallet_balance' = [wallet_balance EXCEPT ![l.reseller] = @ - 100]
              /\ transactions' = Append(transactions,
                     NewTransaction(Len(transactions) + 1, l.reseller, "user_creation_cost",
                                    0 - 100, Len(marzban_users) + 1, NULL, NULL, NULL))
              /\ Goto(p, [next EXCEPT !.summary.newly_added_count = @ + 1], "sync_item")
              /\ now' = now + 1
           \/ /\ SyncAbort(p, l)
              /\ UNCHANGED <<marzban_users, now, wallet_balance, transactions>>
    /\ UNCHANGED <<payment_receipts, config, panel_users, ops>>

\* Mutant: a refresh writes the whole mirror anew, as a synchronised one.
SyncWrite_RefreshRewritesMirror(p) ==
    /\ Delivered
    /\ pc[p] = "sync_write"
    /\ LET l == loc[p]
           user_data == Head(l.api_users)
           next == [l EXCEPT !.api_users = Tail(@), !.found = NULL]
       IN  \/ /\ l.found # NULL
              /\ marzban_users' = [marzban_users EXCEPT
                     ![l.found] = SyncedMirror(l.found, l.panel, l.reseller, user_data, now)]
              /\ Goto(p, [next EXCEPT !.summary.updated_count = @ + 1], "sync_item")
              /\ now' = now + 1
           \/ /\ l.found = NULL
              /\ get_marzban_user_by_username_and_panel(
                     marzban_users, user_data.username, l.panel) = {}
              /\ marzban_users' = Append(marzban_users,
                     SyncedMirror(Len(marzban_users) + 1, l.panel, l.reseller, user_data, now))
              /\ Goto(p, [next EXCEPT !.summary.newly_added_count = @ + 1], "sync_item")
              /\ now' = now + 1
           \/ /\ SyncAbort(p, l)
              /\ UNCHANGED <<marzban_users, now>>
    /\ UNCHANGED <<wallet_balance, transactions, payment_receipts, config, panel_users, ops>>

\* Mutant: a refresh hands the mirror to the reseller that synchronises.
SyncWrite_RefreshTakesOwnership(p) ==
    /\ Delivered
    /\ pc[p] = "sync_write"
    /\ LET l == loc[p]
           user_data == Head(l.api_users)
           next == [l EXCEPT !.api_users = Tail(@), !.found = NULL]
       IN  \/ /\ l.found # NULL
              /\ marzban_users' = [marzban_users EXCEPT
                     ![l.found].api_response_data = user_data,
                     ![l.found].reseller_id = l.reseller,
                     ![l.found].last_synced_at = now]
              /\ Goto(p, [next EXCEPT !.summary.updated_count = @ + 1], "sync_item")
              /\ now' = now + 1
           \/ /\ l.found = NULL
              /\ get_marzban_user_by_username_and_panel(
                     marzban_users, user_data.username, l.panel) = {}
              /\ marzban_users' = Append(marzban_users,
                     SyncedMirror(Len(marzban_users) + 1, l.panel, l.reseller, user_data, now))
              /\ Goto(p, [next EXCEPT !.summary.newly_added_count = @ + 1], "sync_item")
              /\ now' = now + 1
           \/ /\ SyncAbort(p, l)
              /\ UNCHANGED <<marzban_users, now>>
    /\ UNCHANGED <<wallet_balance, transactions, payment_receipts, config, panel_users, ops>>

\* Mutant: a refresh writes every column of the mirror, with the values
\* read when the synchronisation started.
SyncWrite_WritesRowAsRead(p) ==
    /\ Delivered
    /\ pc[p] = "sync_write"
    /\ LET l == loc[p]
           user_data == Head(l.api_users)
           next == [l EXCEPT !.api_users = Tail(@), !.found = NULL]
       IN  \/ /\ l.found # NULL
              /\ marzban_users' = [marzban_users EXCEPT
                     ![l.found] = [(IF l.found <= Len(l.start_users)
                                    THEN l.start_users[l.found] ELSE @)
                                   EXCEPT !.api_response_data = user_data,
                                          !.last_synced_at = now]]
              /\ Goto(p, [next EXCEPT !.summary.updated_count = @ + 1], "sync_item")
              /\ now' = now + 1
           \/ /\ l.found = NULL
              /\ get_marzban_user_by_username_and_panel(
                     marzban_users, user_data.username, l.panel) = {}
              /\ marzban_users' = Append(marzban_users,
                     SyncedMirror(Len(marzban_users) + 1, l.panel, l.reseller, user_data, now))
              /\ Goto(p, [next EXCEPT !.summary.newly_added_count = @ + 1], "sync_item")
              /\ now' = now + 1
           \/ /\ SyncAbort(p, l)
              /\ UNCHANGED <<marzban_users, now>>
    /\ UNCHANGED <<wallet_balance, transactions, payment_receipts, config, panel_users, ops>>

\* The mirror of the remote user is refreshed (lines 98-100) or added
\* (lines 101-112), each with its own commit; a failing commit, and the
\* unique constraint on (marzban_username, marzban_panel_id), end the loop.
SyncWrite(p) ==
    /\ Delivered
    /\ pc[p] = "sync_write"
    /\ LET l == loc[p]
           user_data == Head(l.api_users)
           next == [l EXCEPT !.api_users = Tail(@), !.found = NULL]
       IN  \/ /\ l.found # NULL
              /\ marzban_users' = [marzban_users EXCEPT
                     ![l.found].api_response_data = user_data,
                     ![l.found].last_synced_at = now]
              /\ Goto(p, [next EXCEPT !.summary.updated_count = @ + 1], "sync_item")
              /\ now' = now + 1
           \/ /\ l.found = NULL
              /\ get_marzban_user_by_username_and_panel(
                     marzban_users, user_data.username, l.panel) = {}
              /\ marzban_users' = Append(marzban_users,
                     SyncedMirror(Len(marzban_users) + 1, l.panel, l.reseller, user_data, now))
              /\ Goto(p, [next EXCEPT !.summary.newly_added_count = @ + 1], "sync_item")
              /\ now' = now + 1
           \/ /\ SyncAbort(p, l)
              /\ UNCHANGED <<marzban_users, now>>
    /\ UNCHANGED <<wallet_balance, transactions, payment_receipts, config, panel_users, ops>>

\* A user is created on the panel directly, outside this program.
RemoteAdd(pn, user_data) ==
    /\ Delivered
    /\ user_data \notin panel_users[pn]
    /\ user_data.username # "" => ~PanelHas(pn, user_data.username)
    /\ panel_users' = [panel_users EXCEPT ![pn] = @ \cup {user_data}]
    /\ UNCHANGED <<db, config, now, ops, pc, loc, result>>

\* The users an administrator of the panel may add: one of reseller 1
\* whose record carries no username.
DirectRemoteUsers == { RemoteUser("", 1, 1024, NULL) }

SyncCreateRequests ==
    { [NoRequest EXCEPT !.marzban_panel_id = 1, !.username = "u3",
                        !.data_limit_gb = 2000, !.expire_days = 30] }

\* Panel 1 has a user of each reseller; no synchronisation has run yet.
InitSync ==
    /\ wallet_balance = OpeningBalance
    /\ allow_negative_balance = [r \in Resellers |-> r = 2]
    /\ transactions = <<>>
    /\ marzban_users = <<>>
    /\ payment_receipts = InitialReceipts
    /\ reseller_pricings = InitialPricings
    /\ pricing_plans = InitialPlans
    /\ panel_users = [pn \in Panels |->
                         IF pn = 1 THEN { RemoteUser("u1", 1, 1024, NULL),
                                          RemoteUser("u2", 2, 1024, NULL) }
                         ELSE {}]
    /\ now = 1
    /\ utc_offset = 0
    /\ pc = [p \in Procs |-> "idle"]
    /\ loc = [p \in Procs |-> IdleLoc]
    /\ result = [p \in Procs |-> NoResult]
    /\ ops = 0

NextSync ==
    \/ \E p \in Procs :
        \/ \E r \in Resellers, pn \in Panels : SyncBegin(p, r, pn)
        \/ SyncFetch(p)
        \/ SyncItem(p)
        \/ SyncWrite(p)
        \/ \E req \in SyncCreateRequests : CreateBegin(p, 1, req)
        \/ CreateRemote(p)
        \/ CreateCommit(p)
        \/ Return(p)
    \/ \E user_data \in DirectRemoteUsers : RemoteAdd(1, user_data)

SpecSync == InitSync /\ [][NextSync]_vars

\* ------------------------------------------- users that change hands
\* On the panel a user is handed to the admin of another reseller: its
\* creator_admin_id changes, its name stays.
RemoteReassign(pn, username, r) ==
    /\ Delivered
    /\ \E u \in panel_users[pn] :
          /\ u.username = username
          /\ u.admin_id # marzban_admin_id[r]
          /\ panel_users' = [panel_users EXCEPT ![pn] =
                (@ \ {u}) \cup {[u EXCEPT !.admin_id = marzban_admin_id[r]]}]
    /\ UNCHANGED <<db, config, now, ops, pc, loc, result>>

\* One request at a time: synchronisations of both resellers with panel 1,
\* creations by reseller 1, and users changing hands on the panel.
NextOwner ==
    \/ \E p \in {1} :
        \/ \E r \in Resellers : SyncBegin(p, r, 1)
        \/ SyncFetch(p)
        \/ SyncItem(p)
        \/ SyncWrite(p)
        \/ \E req \in SyncCreateRequests : CreateBegin(p, 1, req)
        \/ CreateRemote(p)
        \/ CreateCommit(p)
        \/ Return(p)
    \/ \E r \in Resellers : RemoteReassign(1, "u1", r)

SpecOwner == InitSync /\ [][NextOwner]_vars

\* ------------------------------------------------------------ receipts
ReceiptAmounts == {500, 300}

\* submit_payment_receipt / create_receipt_for_reseller: a pending receipt
\* of the reseller, in one commit.
ReceiptCreate(p, r, amount) ==
    /\ Accepts(p)
    /\ Len(payment_receipts) < MaxReceipts
    /\ ops' = ops + 1
    /\ payment_receipts' = Append(payment_receipts,
           [reseller_id |-> r, amount |-> amount, status |-> "pending"])
    /\ Finish(p, [IdleLoc EXCEPT !.op = "submit", !.reseller = r,
                                 !.req = [NoRequest EXCEPT
                                     !.receipt_id = Len(payment_receipts) + 1]],
              Response(201, "created"))
    /\ UNCHANGED <<wallet_balance, transactions, marzban_users, config, panel_users, now>>

\* reject_payment_receipt / reject_receipt: the notes are required, the
\* receipt is loaded and must be pending.
RejectBegin(p, rc, has_notes) ==
    /\ Accepts(p)
    /\ ops' = ops + 1
    /\ LET receipt == payment_receipts[rc]
           l == [IdleLoc EXCEPT !.op = "reject", !.reseller = receipt.reseller_id,
                                !.req = [NoRequest EXCEPT !.receipt_id = rc]]
       IN  IF ~has_notes
           THEN Finish(p, [l EXCEPT !.err = "Admin notes are required for rejection."],
                       Response(422, "Admin notes are required for rejection."))
           ELSE IF receipt.status # "pending"
           THEN Finish(p, [l EXCEPT !.err = "Receipt is not pending"],
                       Response(400, "Receipt is not pending"))
           ELSE Goto(p, l, "reject_commit")
    /\ UNCHANGED <<db, config, panel_users, now>>

\* reject_receipt: the status is written and committed.
RejectCommitOk(p) ==
    LET l == loc[p]
        rc == l.req.receipt_id
    IN  /\ Delivered
        /\ pc[p] = "reject_commit"
        /\ payment_receipts' = [payment_receipts EXCEPT ![rc].status = "rejected"]
        /\ now' = now + 1
        /\ Finish(p, l, Response(200, "rejected"))
        /\ UNCHANGED <<wallet_balance, transactions, marzban_users, config,
                       panel_users, ops>>

\* reject_receipt: the commit raises, db.rollback().
RejectCommitFail(p) ==
    LET l == loc[p]
    IN  /\ Delivered
        /\ pc[p] = "reject_commit"
        /\ Finish(p, [l EXCEPT !.err = "Error rejecting receipt"],
                  Response(400, "Error rejecting receipt"))
        /\ UNCHANGED <<db, config, panel_users, now, ops>>

RejectCommit(p) == RejectCommitOk(p) \/ RejectCommitFail(p)

\* No receipt has been submitted yet.
InitReceipts ==
    /\ wallet_balance = OpeningBalance
    /\ allow_negative_balance = [r \in Resellers |-> r = 2]
    /\ transactions = <<>>
    /\ marzban_users = <<>>
    /\ payment_receipts = <<>>
    /\ reseller_pricings = InitialPricings
    /\ pricing_plans = InitialPlans
    /\ panel_users = [pn \in Panels |-> {}]
    /\ now = 1
    /\ utc_offset = 0
    /\ pc = [p \in Procs |-> "idle"]
    /\ loc = [p \in Procs |-> IdleLoc]
    /\ result = [p \in Procs |-> NoResult]
    /\ ops = 0

NextReceipts ==
    \E p \in Procs :
        \/ \E r \in Resellers, amount \in ReceiptAmounts : ReceiptCreate(p, r, amount)
        \/ \E rc \in DOMAIN payment_receipts : ApproveBegin(p, rc)
        \/ ApproveCommit(p)
        \/ \E rc \in DOMAIN payment_receipts, has_notes \in BOOLEAN :
               RejectBegin(p, rc, has_notes)
        \/ RejectCommit(p)
        \/ Return(p)

SpecReceipts == InitReceipts /\ [][NextReceipts]_vars

\* ------------------------------------------------------------ deletions
\* A deleted row keeps its place in the table, so that the ids of later rows
\* are not used again (AUTO_INCREMENT); its columns are empty.
DeletedTransaction(id) == NewTransaction(id, NULL, "deleted", 0, NULL, NULL, NULL, NULL)

DeletedMirror(id) ==
    [id |-> id, marzban_username |-> "", marzban_panel_id |-> NULL,
     reseller_id |-> NULL, created_by_new_panel |-> FALSE, notes |-> NULL,
     last_synced_at |-> NULL, api_response_data |-> NoPayload]

\* delete_reseller_pricing_config / delete_reseller_pricing: the row is
\* deleted; transactions.reseller_pricing_id is ON DELETE SET NULL.
PricingDelete(p, pricing_id) ==
    /\ Accepts(p)
    /\ ops' = ops + 1
    /\ LET l == [IdleLoc EXCEPT !.op = "pricing_delete", !.pricing_id = pricing_id]
       IN  IF \E c \in reseller_pricings : c.id = pricing_id
           THEN /\ reseller_pricings' = {c \in reseller_pricings : c.id # pricing_id}
                /\ transactions' =
                       [i \in DOMAIN transactions |->
                           IF transactions[i].reseller_pricing_id = pricing_id
                           THEN [transactions[i] EXCEPT !.reseller_pricing_id = NULL]
                           ELSE transactions[i]]
                /\ Finish(p, l, Response(200, "deleted"))
           ELSE /\ Finish(p, [l EXCEPT !.err = "not found"],
                          Response(404, "Reseller pricing configuration not found"))
                /\ UNCHANGED <<reseller_pricings, transactions>>
    /\ UNCHANGED <<wallet_balance, marzban_users, payment_receipts,
                   allow_negative_balance, utc_offset, pricing_plans, panel_users, now>>

\* delete_reseller: the row is deleted with its pricing configurations,
\* transactions, receipts and local users (cascade="all, delete-orphan",
\* ON DELETE CASCADE).
ResellerDelete(p, r) ==
    /\ Accepts(p)
    /\ ops' = ops + 1
    /\ LET l == [IdleLoc EXCEPT !.op = "reseller_delete", !.reseller = r]
           gone == {i \in DOMAIN marzban_users : marzban_users[i].reseller_id = r}
       IN  IF r \in DOMAIN wallet_balance
           THEN /\ wallet_balance' = [x \in DOMAIN wallet_balance \ {r} |-> wallet_balance[x]]
                /\ reseller_pricings' = {c \in reseller_pricings : c.reseller_id # r}
                /\ transactions' =
                       [i \in DOMAIN transactions |->
                           IF transactions[i].reseller_id = r THEN DeletedTransaction(i)
                           ELSE IF transactions[i].marzban_user_id \in gone
                           THEN [transactions[i] EXCEPT !.marzban_user_id = NULL]
                           ELSE transactions[i]]
                /\ marzban_users' =
                       [i \in DOMAIN marzban_users |->
                           IF i \in gone THEN DeletedMirror(i) ELSE marzban_users[i]]
                /\ payment_receipts' =
                       [i \in DOMAIN payment_receipts |->
                           IF payment_receipts[i].reseller_id = r
                           THEN [reseller_id |-> NULL, amount |-> 0, status |-> "deleted"]
                           ELSE payment_receipts[i]]
                /\ Finish(p, l, Response(200, "deleted"))
           ELSE /\ Finish(p, [l EXCEPT !.err = "not found"],
                          Response(404, "Reseller not found"))
                /\ UNCHANGED <<wallet_balance, reseller_pricings, transactions,
                               marzban_users, payment_receipts>>
    /\ UNCHANGED <<allow_negative_balance, utc_offset, pricing_plans, panel_users, now>>

LedgerCreateRequests ==
    { [NoRequest EXCEPT !.marzban_panel_id = 1, !.username = u,
                        !.data_limit_gb = 2000, !.expire_days = 30] :
        u \in {"u1", "u2"} }

\* One request at a time: users are created and approvals given while the
\* administrator deletes plans, pricing configurations and resellers.
NextLedger ==
    \E p \in {1} :
        \/ \E r \in DOMAIN wallet_balance, req \in LedgerCreateRequests :
               CreateBegin(p, r, req)
        \/ CreateRemote(p)
        \/ CreateCommit(p)
        \/ \E rc \in ReceiptIds :
               /\ payment_receipts[rc].status # "deleted"
               /\ ApproveBegin(p, rc)
        \/ ApproveCommit(p)
        \/ \E pl \in InitialPlans : PlanDelete(p, pl.id)
        \/ \E c \in InitialPricings : PricingDelete(p, c.id)
        \/ \E r \in Resellers : ResellerDelete(p, r)
        \/ Return(p)

SpecLedger == Init /\ [][NextLedger]_vars

\* ------------------------------------------------------------ usage query
\* The except clauses of the endpoint get_reseller_marzban_user_usage_data.
RouterUsage(e) ==
    IF e.raised # "service"
    THEN Response(500, "An unexpected error occurred while fetching user usage.")
    ELSE IF e.msg = "not found or does not belong"
    THEN Response(404, e.msg)
    ELSE IF e.msg \in {"Could not retrieve credentials",
                       "Failed to authenticate with Marzban panel",
                       "Marzban API error when fetching usage"}
    THEN Response(502, e.msg)
    ELSE Response(400, e.msg)

\* get_marzban_user_usage_for_reseller: the local user is looked up by id
\* and reseller.
UsageBegin(p, r, id) ==
    /\ Accepts(p)
    /\ ops' = ops + 1
    /\ LET found == id \in 1..Len(marzban_users) /\ marzban_users[id].reseller_id = r
           l == [IdleLoc EXCEPT !.op = "usage", !.reseller = r,
                                !.req = [NoRequest EXCEPT !.local_id = id],
                                !.user_id = id]
       IN  IF ~found
           THEN LET msg == "not found or does not belong"
                IN  Finish(p, [l EXCEPT !.err = msg], RouterUsage(ServiceError(msg, l)))
           ELSE Goto(p, [l EXCEPT !.panel = marzban_users[id].marzban_panel_id],
                     "usage_remote")
    /\ UNCHANGED <<db, config, panel_users, now>>

\* Credentials, token and the usage call.
UsageRemote(p) ==
    /\ Delivered
    /\ pc[p] = "usage_remote"
    /\ LET l == loc[p]
           authed == [l EXCEPT !.calls = {"auth"}]
           called == [l EXCEPT !.calls = {"auth", "usage"}]
           Fails(ll, msg) == Finish(p, [ll EXCEPT !.err = msg],
                                    RouterUsage(ServiceError(msg, l)))
       IN  \/ Fails(l, "Could not retrieve credentials")
           \/ Fails(authed, "Failed to authenticate with Marzban panel")
           \/ Finish(p, [authed EXCEPT !.err = "MarzbanAPIError"], RouterUsage(RawError(l)))
           \/ Fails(called, "Marzban API error when fetching usage")
           \/ /\ PanelHas(l.panel, marzban_users[l.user_id].marzban_username)
              /\ Finish(p, [called EXCEPT !.remote_ok = TRUE], Response(200, "usage"))
    /\ UNCHANGED <<db, config, panel_users, now, ops>>

\* ------------------------------------------------------ refused requests
\* Requests for a panel the reseller may not use, for a username that is
\* taken on the panel, and without a usable data limit.
RefusedCreateRequests ==
    { [NoRequest EXCEPT !.marzban_panel_id = x[1], !.username = x[2],
                        !.data_limit_gb = x[3], !.expire_days = 30] :
        x \in { <<1, "u3", 2000>>, <<2, "u3", 0>>, <<1, "u1", 2000>>,
                <<1, "u3", 0>>, <<1, "u3", NULL>> } }

\* Modifications that carry nothing, one field, or a value that is not
\* positive.
RefusedModifyShapes ==
    { NoRequest,
      [NoRequest EXCEPT !.note = 1],
      [NoRequest EXCEPT !.proxies = 1],
      [NoRequest EXCEPT !.inbounds = 1],
      [NoRequest EXCEPT !.data_limit_gb = 2000],
      [NoRequest EXCEPT !.data_limit_gb = 0],
      [NoRequest EXCEPT !.expire_days_to_add = 30],
      [NoRequest EXCEPT !.expire_days_to_add = 0] }

\* Local ids named in a request: the user of reseller 1, the user of
\* reseller 2, and an id no user has.
RefusedLocalIds == {1, 2, 5}

\* One request at a time.
NextRefused ==
    \E p \in {1} :
        \/ \E r \in Resellers, req \in RefusedCreateRequests : CreateBegin(p, r, req)
        \/ CreateRemote(p)
        \/ CreateCommit(p)
        \/ \E r \in Resellers, id \in RefusedLocalIds, req \in RefusedModifyShapes :
               ModifyBegin(p, r, id, req)
        \/ ModifyRemote(p)
        \/ ModifyCommit(p)
        \/ \E r \in Resellers, id \in RefusedLocalIds : UsageBegin(p, r, id)
        \/ UsageRemote(p)
        \/ Return(p)

\* Each reseller has one user on panel 1, mirrored by an earlier
\* synchronisation; reseller 1 pays by GB, reseller 2 by plan.
InitRefused ==
    /\ InitPricing
    /\ reseller_pricings = InitialPricings

SpecRefused == InitRefused /\ [][NextRefused]_vars

\* ------------------------------------------------- renewals and hosts
\* Offsets of the host's local time from UTC: a host kept in UTC, one in
\* UTC+3 and one in UTC-5.
HostOffsets == {0, 3, 0 - 5}

\* expire of the users of reseller 2 when the renewals start: none, 0, a
\* time that has passed and a time to come.
KnownExpiries == <<NULL, 0, 50, 400>>

\* Reseller 2 pays by plan; its four users are on panel 1.
ExpiryNames == <<"u1", "u2", "u3", "u4">>

ExpiryRemoteUser(i) == RemoteUser(ExpiryNames[i], 2, 1024, KnownExpiries[i])

InitExpiry ==
    /\ wallet_balance = OpeningBalance
    /\ allow_negative_balance = [r \in Resellers |-> r = 2]
    /\ transactions = <<>>
    /\ marzban_users = [i \in 1..4 |-> SyncedMirror(i, 1, 2, ExpiryRemoteUser(i), 0)]
    /\ payment_receipts = InitialReceipts
    /\ reseller_pricings = InitialPricings
    /\ pricing_plans = InitialPlans
    /\ panel_users = [pn \in Panels |->
                         IF pn = 1 THEN { ExpiryRemoteUser(i) : i \in 1..4 } ELSE {}]
    /\ now = 100
    /\ utc_offset \in HostOffsets
    /\ pc = [p \in Procs |-> "idle"]
    /\ loc = [p \in Procs |-> IdleLoc]
    /\ result = [p \in Procs |-> NoResult]
    /\ ops = 0

\* One renewal at a time, by the length of the plan.
NextExpiry ==
    \E p \in {1} :
        \/ \E id \in 1..4 :
               ModifyBegin(p, 2, id, [NoRequest EXCEPT !.expire_days_to_add = 30])
        \/ ModifyRemote(p)
        \/ ModifyCommit(p)
        \/ Return(p)

SpecExpiry == InitExpiry /\ [][NextExpiry]_vars

\* ----------------------------------------- modifications and pricing
\* What a modification may find: no configuration at all; reseller 1 paying
\* by GB and reseller 2 by plan; reseller 1 with a configuration that, after
\* an update, holds a plan and a rate.
ModifyScenarios ==
    { {},
      InitialPricings,
      { [id |-> 1, reseller_id |-> 1, marzban_panel_id |-> NULL,
         pricing_plan_id |-> 1, custom_price_per_gb |-> 10] } }

\* The plan under its usual name and under a name that holds a phrase of
\* the descriptions.
ModifyPlans ==
    { InitialPlans,
      {[id |-> 1, name |-> "Set data to 50GB", duration_days |-> 30, price |-> 2000]} }

\* Wallets as opened, and empty wallets.
ModifyBalances == { OpeningBalance, [r \in Resellers |-> 0] }

\* Requests that change the configuration, the data limit, the expiry, or
\* the latter two at once.
ChangeShapes ==
    { [NoRequest EXCEPT !.proxies = 1],
      [NoRequest EXCEPT !.inbounds = 1],
      [NoRequest EXCEPT !.proxies = 1, !.inbounds = 1, !.note = 1],
      [NoRequest EXCEPT !.data_limit_gb = 2000],
      [NoRequest EXCEPT !.expire_days_to_add = 30],
      [NoRequest EXCEPT !.data_limit_gb = 2000, !.expire_days_to_add = 30] }

InitModify ==
    /\ wallet_balance \in ModifyBalances
    /\ allow_negative_balance = [r \in Resellers |-> r = 2]
    /\ transactions = <<>>
    /\ marzban_users = << SyncedMirror(1, 1, 1, RemoteUser("u1", 1, 1024, NULL), 0),
                          SyncedMirror(2, 1, 2, RemoteUser("u2", 2, 1024, NULL), 0) >>
    /\ payment_receipts = InitialReceipts
    /\ reseller_pricings \in ModifyScenarios
    /\ pricing_plans \in ModifyPlans
    /\ panel_users = [pn \in Panels |->
                         IF pn = 1 THEN { RemoteUser("u1", 1, 1024, NULL),
                                          RemoteUser("u2", 2, 1024, NULL) }
                         ELSE {}]
    /\ now = 1
    /\ utc_offset = 0
    /\ pc = [p \in Procs |-> "idle"]
    /\ loc = [p \in Procs |-> IdleLoc]
    /\ result = [p \in Procs |-> NoResult]
    /\ ops = 0

\* One request at a time; every reseller modifies its own user.
NextModify ==
    \E p \in {1} :
        \/ \E r \in Resellers, req \in ChangeShapes : ModifyBegin(p, r, r, req)
        \/ ModifyRemote(p)
        \/ ModifyCommit(p)
        \/ Return(p)

SpecModify == InitModify /\ [][NextModify]_vars

\* ------------------------------- a synchronisation beside a modification
\* The billable modification of reseller 1: 2 GB at 5.00/GB, with a note.
TopUpRequest == [NoRequest EXCEPT !.data_limit_gb = 2000, !.note = 1]

\* No modification is being handled.
NoModifyInFlight == \A q \in Procs : loc[q].op # "modify"

\* Synchronisations of reseller 1 with panel 1 beside modifications of its
\* user u1, one modification at a time.
NextBeside ==
    \E p \in Procs :
        \/ SyncBegin(p, 1, 1)
        \/ SyncFetch(p)
        \/ SyncItem(p)
        \/ SyncWrite(p)
        \/ NoModifyInFlight /\ ModifyBegin(p, 1, 1, TopUpRequest)
        \/ ModifyRemote(p)
        \/ ModifyCommit(p)
        \/ Return(p)

SpecBeside == InitRefused /\ [][NextBeside]_vars

\* ------------------------------------------------ claims on pricing rules
\* The configurations the specification resolves for (reseller, panel): the
\* panel's own one when there is one, else the generic one.
SpecResolve(r, pn) ==
    LET specific == {c \in reseller_pricings : c.reseller_id = r /\ c.marzban_panel_id = pn}
        generic  == {c \in reseller_pricings : c.reseller_id = r /\ c.marzban_panel_id = NULL}
    IN  IF specific # {} THEN specific ELSE generic

\* The plans the configurations resolved for (reseller, panel) refer to.
SpecPlans(r, pn) ==
    {pl \in pricing_plans : \E c \in SpecResolve(r, pn) : c.pricing_plan_id = pl.id}

\* Worker p accepts a request of the given operation in this step.
Accepted(p, op) == Accepts(p) /\ ops' = ops + 1 /\ loc'[p].op = op

\* The request accepted in this step is refused at once with the given
\* answer: no panel call, nothing written.
Refused(p, status, detail) ==
    /\ pc'[p] = "done"
    /\ result'[p].status = status
    /\ result'[p].detail = detail
    /\ loc'[p].calls = {}
    /\ db' = db
    /\ panel_users' = panel_users

\* The accepted modification addresses a mirror of its reseller.
OwnMirror(p) ==
    /\ loc'[p].user_id \in 1..Len(marzban_users)
    /\ marzban_users[loc'[p].user_id].reseller_id = loc'[p].reseller

\* C11: an extend-by-days modifyUser (with a positive day count) passes its
\* checks only under plan-based pricing with a day count equal to the plan's
\* duration, and then costs the plan's price; under plan-based pricing any
\* other day count is refused as a plan duration mismatch, with no panel
\* call and with wallet, ledger and mirrors unchanged.
C11_ExtendNeedsPlanDuration ==
    [][\A p \in Procs :
          ( /\ Accepted(p, "modify")
            /\ OwnMirror(p)
            /\ loc'[p].req.data_limit_gb = NULL
            /\ loc'[p].req.expire_days_to_add # NULL
            /\ loc'[p].req.expire_days_to_add > 0 )
          => LET days == loc'[p].req.expire_days_to_add
                 plans == SpecPlans(loc'[p].reseller,
                                    marzban_users[loc'[p].user_id].marzban_panel_id)
             IN  /\ loc'[p].err = ""
                     => \E pl \in plans : /\ pl.duration_days = days
                                          /\ loc'[p].cost = pl.price
                 /\ (plans # {} /\ \A pl \in plans : pl.duration_days # days)
                     => Refused(p, 400, "does not match assigned plan duration")
                 /\ ( /\ \E pl \in plans :
                             /\ pl.duration_days = days
                             /\ SpecFundsOk(wallet_balance[loc'[p].reseller], pl.price,
                                            allow_negative_balance[loc'[p].reseller]) )
                     => loc'[p].err = ""]_vars

\* A renewal by the plan's 30 days has been charged, and a later request for
\* 15 days is refused.
C11_Witness ==
    /\ \E i \in 1..Len(transactions) :
          /\ transactions[i].transaction_type = "user_renewal_cost"
          /\ transactions[i].amount = 0 - 2000
    /\ \E p \in Procs :
          /\ pc[p] = "done" /\ loc[p].op = "modify"
          /\ loc[p].req.expire_days_to_add = 15
          /\ result[p].status = 400
          /\ result[p].detail = "does not match assigned plan duration"

\* C12: under plan-based pricing a createUser whose validity in days is
\* absent or differs from the plan's duration is refused as a validation
\* error before any panel call, with no debit.
C12_PlanCreateStrictDuration ==
    [][\A p \in Procs :
          ( /\ Accepted(p, "create")
            /\ loc'[p].panel \in reseller_panels[loc'[p].reseller]
            /\ SpecPlans(loc'[p].reseller, loc'[p].panel) # {}
            /\ \A pl \in SpecPlans(loc'[p].reseller, loc'[p].panel) :
                   pl.duration_days # loc'[p].req.expire_days )
          => /\ pc'[p] = "done"
             /\ result'[p].status = 400
             /\ loc'[p].calls = {}
             /\ db' = db
             /\ panel_users' = panel_users]_vars

\* gb (thousandths of a GB) times rate (hundredths), in hundredths, rounded
\* half up: the amount c with c - 1/2 <= gb x rate < c + 1/2.
RoundHalfUp(gb, rate) ==
    CHOOSE c \in 0..((gb * rate) \div 1000 + 1) :
        /\ 1000 * c - 500 <= gb * rate
        /\ gb * rate < 1000 * c + 500

\* The per-GB rates of the configurations resolved for (reseller, panel).
SpecRates(r, pn) ==
    {c.custom_price_per_gb : c \in SpecResolve(r, pn)} \ {NULL}

\* C13: a data-limit modifyUser (with a positive limit) is refused as
\* NoUnitPricingConfigured, with no panel call and nothing written, unless
\* the pricing resolved for (reseller, panel) is unit-rate; when it is, the
\* cost is the new absolute limit times the rate and the panel's limit is
\* replaced by the new absolute value.
C13_DataLimitNeedsUnitRate ==
    [][\A p \in Procs :
          /\ ( /\ Accepted(p, "modify")
               /\ OwnMirror(p)
               /\ loc'[p].req.expire_days_to_add = NULL
               /\ loc'[p].req.data_limit_gb # NULL
               /\ loc'[p].req.data_limit_gb > 0 )
             => LET gb == loc'[p].req.data_limit_gb
                    r == loc'[p].reseller
                    rates == SpecRates(r, marzban_users[loc'[p].user_id].marzban_panel_id)
                IN  /\ rates = {}
                        => Refused(p, 400,
                               "Cannot modify data_limit_gb: No custom GB pricing found")
                    /\ rates # {}
                        => /\ \E rate \in rates : loc'[p].cost = RoundHalfUp(gb, rate)
                           /\ loc'[p].api_payload.data_limit = gb_to_bytes(gb)
                           /\ SpecFundsOk(wallet_balance[r], loc'[p].cost,
                                          allow_negative_balance[r])
                               => pc'[p] = "modify_remote"
          /\ ( /\ pc[p] = "modify_remote"
               /\ loc[p].req.data_limit_gb # NULL
               /\ loc'[p].remote_ok )
             => \A u \in panel_users'[loc[p].panel] :
                    u.username = marzban_users[loc[p].user_id].marzban_username
                    => u.data_limit = gb_to_bytes(loc[p].req.data_limit_gb)]_vars

\* Reseller 1 has set the limit of its user to 2.333 GB twice: both times
\* the whole 2.333 GB are charged and the panel holds 2.333 GB.
C13_Witness ==
    /\ Cardinality({i \in 1..Len(transactions) :
                       /\ transactions[i].transaction_type = "user_data_topup_cost"
                       /\ transactions[i].marzban_user_id = 1}) = 2
    /\ \A i \in 1..Len(transactions) :
          transactions[i].amount = 0 - RoundHalfUp(2333, 50)
          \/ transactions[i].amount = 0 - RoundHalfUp(2333, 500)
    /\ \E u \in panel_users[1] : u.username = "u1" /\ u.data_limit = gb_to_bytes(2333)

\* C14: under unit-rate pricing the cost of a createUser and of a data-limit
\* modifyUser, and the amount of the ledger entry of a successful one, is
\* gb x rate rounded half up to hundredths.
C14_UnitCostRoundsHalfUp ==
    \A p \in Procs :
        \A c \in reseller_pricings :
            ( /\ Billing(p)
              /\ loc[p].checked
              /\ c.id = loc[p].pricing_id
              /\ c.custom_price_per_gb # NULL
              /\ loc[p].req.data_limit_gb # NULL )
            => LET amount == RoundHalfUp(loc[p].req.data_limit_gb, c.custom_price_per_gb)
               IN  /\ loc[p].cost = amount
                   /\ (pc[p] = "done" /\ result[p].status \in {200, 201})
                       => /\ transactions # <<>>
                          /\ transactions[Len(transactions)].amount = 0 - amount
                          /\ transactions[Len(transactions)].marzban_user_id = loc[p].user_id

\* At 0.50/GB a limit of 2.333 GB has been charged 1.17 (from 1.1665) and a
\* user of 2.330 GB is created for 1.17 (from 1.165).
C14_Witness ==
    /\ \E i \in 1..Len(transactions) :
          /\ transactions[i].transaction_type = "user_data_topup_cost"
          /\ transactions[i].amount = 0 - 117
    /\ \E p \in Procs :
          /\ pc[p] = "done" /\ loc[p].op = "create" /\ result[p].status = 201
          /\ loc[p].req.data_limit_gb = 2330
          /\ loc[p].cost = 117

\* C15: createUser prices with the panel's own configuration whenever the
\* reseller has one, with the reseller's generic configuration only when it
\* has none for the panel, and when it has neither it is refused as
\* NoPricingConfigured: no cost is computed, no panel call is issued and
\* nothing is written.
C15_PricingPrecedence ==
    [][\A p \in Procs :
          ( /\ Accepted(p, "create")
            /\ loc'[p].panel \in reseller_panels[loc'[p].reseller] )
          => LET r == loc'[p].reseller
                 specific == {c \in reseller_pricings :
                                 c.reseller_id = r /\ c.marzban_panel_id = loc'[p].panel}
                 generic  == {c \in reseller_pricings :
                                 c.reseller_id = r /\ c.marzban_panel_id = NULL}
             IN  /\ specific # {}
                     => \E c \in specific : loc'[p].pricing_id = c.id
                 /\ (specific = {} /\ generic # {})
                     => \E c \in generic : loc'[p].pricing_id = c.id
                 /\ (specific = {} /\ generic = {})
                     => /\ Refused(p, 400, "No active pricing configuration")
                        /\ loc'[p].pricing_id = NULL
                        /\ loc'[p].cost = 0
                        /\ ~loc'[p].checked]_vars

\* Reseller 1, which has a generic configuration too, has been charged by
\* its configuration for panel 1, and reseller 2 is refused on panel 1,
\* for which it has no configuration.
C15_Witness ==
    /\ \E c \in reseller_pricings : c.reseller_id = 1 /\ c.marzban_panel_id = NULL
    /\ \E i \in 1..Len(transactions) :
          /\ transactions[i].reseller_id = 1
          /\ transactions[i].transaction_type = "user_creation_cost"
          /\ transactions[i].reseller_pricing_id = 3
    /\ \E p \in Procs :
          /\ pc[p] = "done" /\ loc[p].op = "create" /\ loc[p].reseller = 2
          /\ result[p].status = 400
          /\ result[p].detail = "No active pricing configuration"

\* C16: every stored pricing configuration has exactly one of plan reference
\* and per-GB rate, whatever creations, updates and plan deletions have run.
C16_ExactlyOnePricingKind ==
    \A c \in reseller_pricings :
        (c.pricing_plan_id # NULL) # (c.custom_price_per_gb # NULL)

\* C17: there is at most one pricing configuration per (reseller, panel),
\* the generic case (no panel) counting as a pair of its own.
C17_OnePricingPerPair ==
    \A c1, c2 \in reseller_pricings :
        (c1.reseller_id = c2.reseller_id /\ c1.marzban_panel_id = c2.marzban_panel_id)
        => c1 = c2

\* ------------------------------------------------ claims on synchronisation
OneMirrorPerUser ==
    \A i, j \in 1..Len(marzban_users) :
        /\ marzban_users[i].marzban_username = marzban_users[j].marzban_username
        /\ marzban_users[i].marzban_panel_id = marzban_users[j].marzban_panel_id
        => i = j

\* The (username, panel) whose mirror the next step of p would add.
Adding(p) ==
    IF pc[p] = "create_commit" THEN <<loc[p].response.username, loc[p].panel>>
    ELSE IF pc[p] = "sync_write" /\ loc[p].found = NULL
         THEN <<Head(loc[p].api_users).username, loc[p].panel>>
         ELSE <<"", NULL>>

Mirrored(pair) ==
    get_marzban_user_by_username_and_panel(marzban_users, pair[1], pair[2]) # {}

SyncComplete(p) ==
    /\ pc[p] = "done" /\ loc[p].op = "sync"
    /\ "list" \in loc[p].calls
    /\ loc[p].api_users = <<>>
    /\ loc[p].err = ""
    /\ result[p].status = 200

\* Every listed user with a username had its mirror when the list was
\* taken: the state a complete earlier run leaves when the panel has not
\* changed since.
AlreadyMirrored(p) ==
    \A k \in 1..Len(loc[p].listed) :
        loc[p].listed[k].username # ""
        => get_marzban_user_by_username_and_panel(
               loc[p].start_users, loc[p].listed[k].username, loc[p].panel) # {}

Named(list) == {k \in 1..Len(list) : list[k].username # ""}

\* C19: a synchronisation that runs when an earlier one has mirrored every
\* listed user and the panel has not changed since adds no mirror and
\* counts every listed user with a username as updated; the mirrors it
\* found are still there, each with the same username, panel, owner, flag
\* and notes, and no mirror has been added for a listed user.
C19_SyncIdempotent ==
    \A p \in Procs :
        SyncComplete(p) /\ AlreadyMirrored(p)
        => LET l == loc[p]
           IN  /\ l.summary.newly_added_count = 0
               /\ l.summary.updated_count = Cardinality(Named(l.listed))
               /\ Len(marzban_users) >= Len(l.start_users)
               /\ \A i \in 1..Len(l.start_users) :
                     [marzban_users[i] EXCEPT
                          !.api_response_data = l.start_users[i].api_response_data,
                          !.last_synced_at = l.start_users[i].last_synced_at]
                     = l.start_users[i]
               /\ \A i \in (Len(l.start_users) + 1)..Len(marzban_users) :
                     ~(/\ marzban_users[i].marzban_panel_id = l.panel
                       /\ \E k \in Named(l.listed) :
                             l.listed[k].username = marzban_users[i].marzban_username)

\* A second complete run: the mirrors it started from include one that a
\* synchronisation added and one that createUser added, and it refreshed both.
C19_Witness ==
    \E p \in Procs :
        /\ SyncComplete(p) /\ AlreadyMirrored(p)
        /\ loc[p].summary.updated_count >= 2
        /\ \E i, j \in 1..Len(loc[p].start_users) :
              /\ ~loc[p].start_users[i].created_by_new_panel
              /\ loc[p].start_users[i].reseller_id = loc[p].reseller
              /\ loc[p].start_users[j].created_by_new_panel
              /\ loc[p].start_users[j].reseller_id = loc[p].reseller
              /\ marzban_users[i].last_synced_at > loc[p].start_users[i].last_synced_at

\* C20: a synchronisation whose panel password is missing, or whose token
\* request yields no token or is refused by the panel, ends with an error
\* status, not with a summary, and writes no mirror.
C20_AuthFailureFailsSync ==
    [][\A p \in Procs :
          (/\ pc[p] = "sync_fetch"
           /\ pc'[p] = "done"
           /\ "list" \notin loc'[p].calls)
          => /\ result'[p].status >= 400
             /\ marzban_users' = marzban_users]_vars

\* C21: when a synchronisation that has listed the users of the panel
\* returns its summary, every listed user with a username has a mirror, and
\* total_users_from_api = newly_added_count + updated_count + the number of
\* listed users without a username, whatever went wrong with single items.
C21_ItemErrorsNotFatal ==
    \A p \in Procs :
        (/\ pc[p] = "done" /\ loc[p].op = "sync"
         /\ "list" \in loc[p].calls
         /\ result[p].status = 200)
        => LET l == loc[p]
           IN  /\ l.summary.total_users_from_api
                      = l.summary.newly_added_count + l.summary.updated_count
                        + (Len(l.listed) - Cardinality(Named(l.listed)))
               /\ \A k \in Named(l.listed) :
                     Mirrored(<<l.listed[k].username, l.panel>>)

\* A step of a synchronisation.
SyncStep(p) ==
    /\ loc'[p].op = "sync"
    /\ pc'[p] # pc[p] \/ loc'[p] # loc[p]

\* C22: no step of a synchronisation, whether it ends well or not, changes a
\* wallet balance or the ledger.
C22_SyncNonBilling ==
    [][\A p \in Procs :
          SyncStep(p) => /\ wallet_balance' = wallet_balance
                         /\ transactions' = transactions]_vars

\* One synchronisation has added mirrors and returned, another has failed.
C22_Witness ==
    /\ \E i \in 1..Len(marzban_users) : ~marzban_users[i].created_by_new_panel
    /\ \E p \in Procs :
          /\ pc[p] = "done" /\ loc[p].op = "sync"
          /\ loc[p].summary.errors # {}
    /\ wallet_balance = OpeningBalance

\* --------------------------------------------------- claims on receipts
Entries(rc) == {i \in 1..Len(transactions) : transactions[i].payment_receipt_id = rc}

\* C23: whatever the interleaving of approvals and rejections, a receipt has
\* at most one ledger entry, its reseller's wallet has been credited with its
\* amount at most once, and it has a ledger entry if and only if its status
\* is approved.
C23_ReceiptCreditedOnce ==
    /\ \A rc \in DOMAIN payment_receipts :
          /\ Cardinality(Entries(rc)) <= 1
          /\ Entries(rc) # {} <=> payment_receipts[rc].status = "approved"
    /\ \A r \in Resellers :
          wallet_balance[r] <= OpeningBalance[r]
                                   + SumAmounts(transactions, r, Len(transactions))

\* C24: a receipt is pending, approved or rejected; a new receipt is
\* pending; a receipt that is approved or rejected never changes again, and
\* an approval or rejection requested for it is answered with an error and
\* changes neither wallet nor ledger; no step of a rejection changes a
\* wallet balance or the ledger.
C24_ReceiptStatusTerminal ==
    [][/\ \A rc \in DOMAIN payment_receipts' :
             /\ payment_receipts'[rc].status \in {"pending", "approved", "rejected"}
             /\ rc \notin DOMAIN payment_receipts
                => payment_receipts'[rc].status = "pending"
             /\ (rc \in DOMAIN payment_receipts
                 /\ payment_receipts[rc].status # "pending")
                => payment_receipts'[rc] = payment_receipts[rc]
       /\ \A p \in Procs :
             (/\ pc[p] = "idle"
              /\ loc'[p].op \in {"approve", "reject"}
              /\ payment_receipts[loc'[p].req.receipt_id].status # "pending")
             => /\ pc'[p] = "done"
                /\ result'[p].status >= 400
                /\ db' = db
       /\ \A p \in Procs :
             loc'[p].op = "reject" /\ pc'[p] # pc[p]
             => /\ wallet_balance' = wallet_balance
                /\ transactions' = transactions]_vars

\* C25: a ledger entry, once written, stays: in every later state it is
\* there with the same reseller, amount, type and links, whatever is deleted.
C25_LedgerAppendOnly ==
    [][/\ Len(transactions') >= Len(transactions)
       /\ \A i \in 1..Len(transactions) : transactions'[i] = transactions[i]]_vars

\* ------------------------------------------- claims on refused requests
\* The request worker p takes in this step names a local id that no user
\* has, or the user of another reseller.
NamesForeignUser(p) ==
    /\ pc[p] = "idle"
    /\ loc'[p].op \in {"modify", "usage"}
    /\ LET id == loc'[p].user_id
       IN  \/ id \notin 1..Len(marzban_users)
           \/ marzban_users[id].reseller_id # loc'[p].reseller

\* C26: a modification or a usage query that names a local id that does not
\* exist, or the user of another reseller, is answered 404 with one and the
\* same message in both cases; no call to the panel is made and no wallet,
\* ledger entry, mirror or panel user changes.
C26_ForeignUserNotFound ==
    [][\A p \in Procs :
          NamesForeignUser(p)
          => /\ pc'[p] = "done"
             /\ result'[p] = Response(404, "not found or does not belong")
             /\ loc'[p].calls = {}
             /\ db' = db
             /\ panel_users' = panel_users]_vars

\* Reseller 1 has asked for a new data limit on the user of reseller 2.
C26_Witness ==
    \E p \in Procs :
        /\ pc[p] = "done" /\ loc[p].op = "modify"
        /\ loc[p].reseller = 1 /\ loc[p].user_id = 2
        /\ marzban_users[2].reseller_id = 2
        /\ loc[p].req.data_limit_gb = 2000
        /\ result[p].status = 404

\* C27: createUser for a panel the reseller has no access to is refused
\* with "Reseller does not have access" (400) before any pricing is
\* resolved, any cost or wallet check made or any call sent to the panel,
\* and changes no wallet, ledger entry, mirror or panel user.
C27_AccessDeniedFirst ==
    [][\A p \in Procs :
          (/\ pc[p] = "idle"
           /\ loc'[p].op = "create"
           /\ loc'[p].req.marzban_panel_id \notin reseller_panels[loc'[p].reseller])
          => /\ pc'[p] = "done"
             /\ result'[p] = Response(400, "Reseller does not have access")
             /\ loc'[p].pricing_id = NULL /\ loc'[p].cost = 0 /\ ~loc'[p].checked
             /\ loc'[p].calls = {}
             /\ db' = db
             /\ panel_users' = panel_users]_vars

\* Reseller 1, who has a pricing configuration that covers every panel, has
\* asked for a user on panel 2, with a data limit that is not valid either.
C27_Witness ==
    \E p \in Procs :
        /\ pc[p] = "done" /\ loc[p].op = "create"
        /\ loc[p].reseller = 1 /\ loc[p].req.marzban_panel_id = 2
        /\ get_active_pricing_for_reseller(reseller_pricings, 1, 2).id # NULL
        /\ loc[p].req.data_limit_gb = 0
        /\ result[p].status = 400

\* The modification request carries none of data limit, days to add,
\* proxies, inbounds and note.
CarriesNothing(req) ==
    /\ req.data_limit_gb = NULL /\ req.expire_days_to_add = NULL
    /\ req.proxies = NULL /\ req.inbounds = NULL /\ req.note = NULL

\* C28: a modification of a user of the reseller that carries none of the
\* five fields is refused with "Nothing to update" (400) without a call to
\* the panel and without any change; a modification that carries one of
\* them is never refused with that error.
C28_NothingToUpdate ==
    [][\A p \in Procs :
          (pc[p] = "idle" /\ loc'[p].op = "modify")
          => LET l == loc'[p]
                 own == /\ l.user_id \in 1..Len(marzban_users)
                        /\ marzban_users[l.user_id].reseller_id = l.reseller
             IN  /\ (own /\ CarriesNothing(l.req))
                    => /\ pc'[p] = "done"
                       /\ result'[p] = Response(400, "Nothing to update")
                       /\ l.calls = {}
                       /\ db' = db
                       /\ panel_users' = panel_users
                 /\ ~CarriesNothing(l.req)
                    => /\ l.err # "Nothing to update"
                       /\ result'[p].detail # "Nothing to update"]_vars

\* An empty modification of an own user has been refused; and a
\* modification that carries only a note has been accepted.
C28_Witness ==
    \E p \in Procs :
        /\ loc[p].op = "modify"
        /\ loc[p].user_id \in 1..Len(marzban_users)
        /\ marzban_users[loc[p].user_id].reseller_id = loc[p].reseller
        /\ \/ /\ pc[p] = "done" /\ CarriesNothing(loc[p].req)
              /\ result[p].detail = "Nothing to update"
           \/ /\ pc[p] = "modify_commit"
              /\ loc[p].req.note # NULL /\ ~loc[p].has_payload

\* The messages of the validation errors of createUser and modifyUser.
ValidationMessages ==
    { "Data limit (data_limit_gb) must be provided",
      "data_limit_gb must be positive",
      "expire_days_to_add must be positive" }

\* The request worker p takes in this step is not valid: a creation under
\* a rate per GB without a positive data limit, or a modification of an own
\* user with a data limit or a day count that is not positive.
TakesInvalidRequest(p) ==
    /\ pc[p] = "idle"
    /\ LET l == loc'[p]
       IN  \/ /\ l.op = "create"
              /\ l.req.marzban_panel_id \in reseller_panels[l.reseller]
              /\ get_active_pricing_for_reseller(reseller_pricings, l.reseller,
                     l.req.marzban_panel_id).custom_price_per_gb # NULL
              /\ l.req.data_limit_gb = NULL \/ l.req.data_limit_gb <= 0
           \/ /\ l.op = "modify"
              /\ l.user_id \in 1..Len(marzban_users)
              /\ marzban_users[l.user_id].reseller_id = l.reseller
              /\ \/ l.req.data_limit_gb # NULL /\ l.req.data_limit_gb <= 0
                 \/ /\ l.req.data_limit_gb = NULL
                    /\ l.req.expire_days_to_add # NULL /\ l.req.expire_days_to_add <= 0

\* C29: a creation or modification that is not valid ends at once with a
\* validation error (400), and every request that ends with a validation
\* error has made no call to the panel and has changed no wallet, ledger
\* entry, mirror or panel user.
C29_ValidationErrorIsClean ==
    [][\A p \in Procs :
          /\ TakesInvalidRequest(p)
             => /\ pc'[p] = "done"
                /\ result'[p].status = 400
                /\ result'[p].detail \in ValidationMessages
          /\ (pc'[p] = "done" /\ pc[p] # "done"
              /\ result'[p].detail \in ValidationMessages)
             => /\ pc[p] = "idle"
                /\ loc'[p].calls = {}
                /\ db' = db
                /\ panel_users' = panel_users]_vars

\* A creation without a data limit under a rate per GB has been refused,
\* or a modification with a data limit or a day count of zero.
C29_Witness ==
    \E p \in Procs :
        /\ pc[p] = "done"
        /\ result[p].detail \in ValidationMessages
        /\ \/ loc[p].op = "create" /\ loc[p].req.data_limit_gb = NULL
           \/ loc[p].op = "modify" /\ loc[p].req.data_limit_gb = 0
           \/ loc[p].op = "modify" /\ loc[p].req.expire_days_to_add = 0

\* C30: when the panel refuses the create call because the username is
\* taken (409), createUser answers with the conflict error (409); when the
\* call fails in any other way it answers with the gateway error (502),
\* never with a conflict; in both cases nothing is written locally.
C30_RemoteConflictDistinct ==
    [][\A p \in Procs :
          (/\ pc[p] = "create_remote"
           /\ pc'[p] = "done"
           /\ loc'[p].api_status # NULL)
          => /\ loc'[p].api_status = 409 => result'[p].status = 409
             /\ loc'[p].api_status # 409 => result'[p].status = 502
             /\ db' = db]_vars

\* ------------------------------------------ claims on modifications
\* C31: when the password of the panel cannot be obtained, or the token
\* request yields no token or is refused by the panel, createUser and
\* modifyUser answer with the error that names the failure (400, "Could not
\* retrieve credentials" or "Failed to authenticate with Marzban panel"),
\* not with the answer for an unexpected exception; no create or update
\* call is made and nothing is written.
C31_PanelAuthFailedTyped ==
    [][\A p \in Procs :
          (/\ pc[p] \in {"create_remote", "modify_remote"}
           /\ pc'[p] = "done"
           /\ loc'[p].calls \subseteq {"auth"})
          => /\ result'[p].status = 400
             /\ result'[p].detail \in {"Could not retrieve credentials",
                                       "Failed to authenticate with Marzban panel"}
             /\ db' = db
             /\ panel_users' = panel_users]_vars

\* C32: the expiry a successful extend-by-days modification sends to the
\* panel is max(now, last known expiry of the mirror) + the requested days:
\* the base is now when the last known expiry is absent, zero or past, and
\* that expiry when it is still to come.
C32_ExpiryFromMaxOfNowAndKnown ==
    [][\A p \in Procs :
          (/\ pc[p] = "modify_remote"
           /\ pc'[p] = "modify_commit"
           /\ loc[p].req.expire_days_to_add # NULL)
          => LET known == marzban_users[loc[p].user_id].api_response_data.expire
                 base == IF known = NULL \/ known <= now THEN now ELSE known
             IN  loc[p].api_payload.expire
                     = base + 24 * loc[p].req.expire_days_to_add]_vars

\* A modification that carries a note and nothing else.
NoteOnly(req) ==
    /\ req.note # NULL
    /\ req.data_limit_gb = NULL /\ req.expire_days_to_add = NULL
    /\ req.proxies = NULL /\ req.inbounds = NULL

\* C33: a modification that carries only a note makes no call to the panel
\* (no token request, no update), adds no ledger entry and leaves the wallet
\* and the stored payload of the mirror as they were; of the mirror only
\* notes and last_synced_at change.
C33_NoteOnlyIsLocal ==
    [][\A p \in Procs :
          /\ (/\ pc[p] = "idle"
              /\ pc'[p] # "idle"
              /\ loc'[p].op = "modify"
              /\ NoteOnly(loc'[p].req)
              /\ loc'[p].err = "")
             => /\ pc'[p] = "modify_commit"
                /\ loc'[p].calls = {}
                /\ db' = db
                /\ panel_users' = panel_users
          /\ (/\ pc[p] = "modify_commit"
              /\ pc'[p] = "done"
              /\ NoteOnly(loc[p].req))
             => LET id == loc[p].user_id
                IN  /\ loc'[p].calls = {}
                    /\ panel_users' = panel_users
                    /\ wallet_balance' = wallet_balance
                    /\ transactions' = transactions
                    /\ payment_receipts' = payment_receipts
                    /\ marzban_users' =
                          [marzban_users EXCEPT
                              ![id].notes = marzban_users'[id].notes,
                              ![id].last_synced_at = marzban_users'[id].last_synced_at]
                    /\ result'[p].status = 200
                          => /\ marzban_users'[id].notes = loc[p].req.note
                             /\ marzban_users'[id].last_synced_at = now]_vars

C33_Witness ==
    \E p \in Procs :
        /\ pc[p] = "done"
        /\ loc[p].op = "modify"
        /\ NoteOnly(loc[p].req)
        /\ result[p].status = 200
        /\ loc[p].user_id \in 1..Len(marzban_users)
        /\ marzban_users[loc[p].user_id].notes = loc[p].req.note
        /\ marzban_users[loc[p].user_id].api_response_data.username # ""
        /\ marzban_users[loc[p].user_id].last_synced_at > 0

\* A modification of proxies, inbounds and/or the note, with no data limit
\* and no days.
ConfigOnly(req) ==
    /\ req.data_limit_gb = NULL /\ req.expire_days_to_add = NULL
    /\ req.proxies # NULL \/ req.inbounds # NULL \/ req.note # NULL

\* C34: a modification of proxies, inbounds and/or note costs nothing and is
\* not subject to the pricing checks: whatever configuration the reseller
\* has (none included) and whatever its balance, it passes the checks and,
\* once its writes are committed, succeeds; at no step does it change the
\* wallet or add a ledger entry.
C34_ConfigChangeIsFree ==
    [][\A p \in Procs :
          /\ (/\ pc[p] = "idle"
              /\ pc'[p] # "idle"
              /\ loc'[p].op = "modify"
              /\ ConfigOnly(loc'[p].req)
              /\ OwnMirror(p))
             => /\ loc'[p].err = ""
                /\ loc'[p].cost = 0
                /\ pc'[p] \in {"modify_remote", "modify_commit"}
          /\ (/\ loc[p].op = "modify"
              /\ ConfigOnly(loc[p].req)
              /\ pc'[p] # pc[p])
             => /\ wallet_balance' = wallet_balance
                /\ transactions' = transactions
                /\ (pc[p] = "modify_commit" /\ marzban_users' # marzban_users)
                      => result'[p].status = 200]_vars

C34_Witness ==
    \E p \in Procs :
        /\ pc[p] = "done"
        /\ loc[p].op = "modify"
        /\ ConfigOnly(loc[p].req)
        /\ loc[p].req.proxies # NULL
        /\ result[p].status = 200
        /\ \A c \in reseller_pricings : c.reseller_id # loc[p].reseller
        /\ wallet_balance[loc[p].reseller] = 0
        /\ ~allow_negative_balance[loc[p].reseller]
        /\ "update" \in loc[p].calls

\* C35: the ledger entry of a billable modification carries the type of what
\* the request changed: user_data_topup_cost exactly when only the data
\* limit was set, user_renewal_cost exactly when only the expiry was
\* extended, user_data_renew_cost exactly when both were.
C35_TypeNamesWhatChanged ==
    [][\A p \in Procs :
          (/\ pc[p] = "modify_commit"
           /\ pc'[p] = "done"
           /\ Len(transactions') = Len(transactions) + 1)
          => LET type == transactions'[Len(transactions')].transaction_type
                 data == loc[p].req.data_limit_gb # NULL
                 days == loc[p].req.expire_days_to_add # NULL
             IN  /\ type = "user_data_topup_cost" <=> (data /\ ~days)
                 /\ type = "user_renewal_cost" <=> (days /\ ~data)
                 /\ type = "user_data_renew_cost" <=> (data /\ days)]_vars

\* Every configuration has a plan or a rate, and not both.
OneOfPlanAndRate ==
    \A c \in reseller_pricings :
        (c.pricing_plan_id # NULL) # (c.custom_price_per_gb # NULL)

\* The request accepted in this step sets a data limit and adds days, both
\* positive, for a user of the reseller.
SetsLimitAndAddsDays(p) ==
    /\ Accepted(p, "modify")
    /\ OwnMirror(p)
    /\ loc'[p].req.data_limit_gb # NULL /\ loc'[p].req.data_limit_gb > 0
    /\ loc'[p].req.expire_days_to_add # NULL /\ loc'[p].req.expire_days_to_add > 0

\* A request that sets a data limit and adds days is refused before any
\* panel call, for the missing rate or the missing plan, and changes nothing.
LimitAndDaysRefused ==
    \A p \in Procs :
        SetsLimitAndAddsDays(p)
        => \/ Refused(p, 400, "Cannot modify data_limit_gb: No custom GB pricing found")
           \/ Refused(p, 400, "No suitable pricing plan found")

\* C38: while every configuration has exactly one of plan and rate, a
\* modification that carries a data limit and days to add fails before any
\* panel call, with the no-rate or the no-plan error, and changes nothing;
\* so the ledger never holds an entry of type user_data_renew_cost.
C38_NoCombinedChange ==
    [][OneOfPlanAndRate
       => /\ LimitAndDaysRefused
          /\ \A i \in 1..Len(transactions') :
                transactions'[i].transaction_type # "user_data_renew_cost"]_vars

\* ------------------------------------ claims on mirrors and their owners
\* The mirrors of a remote user's name on a panel.
MirrorsOf(username, pn) ==
    {i \in 1..Len(marzban_users) :
        /\ marzban_users[i].marzban_username = username
        /\ marzban_users[i].marzban_panel_id = pn}

\* C36: for a remote user a synchronisation has been given: when a mirror of
\* (username, panel) exists, only its stored payload and last_synced_at
\* change (its reseller, created_by_new_panel and notes stay, also when it
\* belongs to another reseller or was created here); otherwise a mirror is
\* added that belongs to the synchronising reseller, with
\* created_by_new_panel false and the note of a synchronised user.
C36_SyncRefreshesOrAdds ==
    [][\A p \in Procs :
          (/\ pc[p] = "sync_write"
           /\ pc'[p] = "sync_item")
          => LET user_data == Head(loc[p].api_users)
                 existing == MirrorsOf(user_data.username, loc[p].panel)
             IN  IF existing # {}
                 THEN \E i \in existing :
                         marzban_users' = [marzban_users EXCEPT
                             ![i].api_response_data = user_data,
                             ![i].last_synced_at = now]
                 ELSE /\ Len(marzban_users') = Len(marzban_users) + 1
                      /\ SubSeq(marzban_users', 1, Len(marzban_users)) = marzban_users
                      /\ LET m == marzban_users'[Len(marzban_users')]
                         IN  /\ m.marzban_username = user_data.username
                             /\ m.marzban_panel_id = loc[p].panel
                             /\ m.reseller_id = loc[p].reseller
                             /\ ~m.created_by_new_panel
                             /\ m.notes = SyncNote
                             /\ m.api_response_data = user_data]_vars

\* A synchronisation of one reseller has refreshed a mirror of the other,
\* and a mirror created here has been refreshed as well.
C36_Witness ==
    \E p \in Procs :
        /\ pc[p] \in {"sync_item", "done"}
        /\ loc[p].op = "sync"
        /\ loc[p].summary.updated_count >= 2
        /\ \E i \in 1..Len(marzban_users) :
              /\ marzban_users[i].reseller_id # loc[p].reseller
              /\ marzban_users[i].api_response_data.admin_id
                    = marzban_admin_id[loc[p].reseller]
              /\ marzban_users[i].notes = SyncNote
        /\ \E j \in 1..Len(marzban_users) :
              /\ marzban_users[j].created_by_new_panel
              /\ marzban_users[j].last_synced_at > 1
              /\ marzban_users[j].reseller_id = loc[p].reseller

\* C37: the commit step of createUser adds the mirror or, when a mirror of
\* (username, panel) exists already (one a synchronisation has added, say),
\* updates that mirror, setting created_by_new_panel and storing the new
\* payload; either way the debit and the ledger entry are committed and the
\* request succeeds.  Stated for the step that finds a mirror.
C37_CommitUpdatesExistingMirror ==
    [][\A p \in Procs :
          (/\ pc[p] = "create_commit"
           /\ pc'[p] = "done"
           /\ MirrorsOf(loc[p].response.username, loc[p].panel) # {})
          => /\ result'[p].status \in {200, 201}
             /\ \E i \in MirrorsOf(loc[p].response.username, loc[p].panel) :
                   /\ marzban_users'[i].created_by_new_panel
                   /\ marzban_users'[i].api_response_data = loc[p].response
             /\ wallet_balance'[loc[p].reseller]
                   = wallet_balance[loc[p].reseller] - loc[p].cost
             /\ Len(transactions') = Len(transactions) + 1]_vars

\* The ledger entries that record the creation of mirror i.
CreationEntries(i) ==
    {k \in 1..Len(transactions) :
        /\ transactions[k].transaction_type = "user_creation_cost"
        /\ transactions[k].marzban_user_id = i}

\* C39: in every reachable state a mirror is linked from at most one ledger
\* entry of type user_creation_cost, and only a mirror with
\* created_by_new_panel set has one: mirrors added by a synchronisation have
\* none, and no name on a panel is charged for creation twice, also when a
\* creation is repeated after an error.
C39_OneCreationEntryPerMirror ==
    /\ \A i \in 1..Len(marzban_users) :
          /\ Cardinality(CreationEntries(i)) <= 1
          /\ CreationEntries(i) # {} => marzban_users[i].created_by_new_panel
    /\ \A k \in 1..Len(transactions) :
          transactions[k].transaction_type = "user_creation_cost"
          => transactions[k].marzban_user_id \in 1..Len(marzban_users)
    /\ \A i, j \in 1..Len(marzban_users) :
          (/\ CreationEntries(i) # {} /\ CreationEntries(j) # {}
           /\ marzban_users[i].marzban_username = marzban_users[j].marzban_username
           /\ marzban_users[i].marzban_panel_id = marzban_users[j].marzban_panel_id)
          => i = j

\* A created user has its entry, a synchronised one has none, and a
\* repeated creation has been refused.
C39_Witness ==
    /\ \E i \in 1..Len(marzban_users) :
          /\ marzban_users[i].created_by_new_panel
          /\ Cardinality(CreationEntries(i)) = 1
    /\ \E j \in 1..Len(marzban_users) :
          /\ ~marzban_users[j].created_by_new_panel
          /\ CreationEntries(j) = {}
    /\ \E p \in Procs :
          /\ pc[p] = "done" /\ loc[p].op = "create"
          /\ result[p].status >= 400

\* The columns of the mirrors that neither a synchronisation nor a
\* modification may touch are as before.
IdentityKept ==
    /\ Len(marzban_users') >= Len(marzban_users)
    /\ \A i \in 1..Len(marzban_users) :
          /\ marzban_users'[i].reseller_id = marzban_users[i].reseller_id
          /\ marzban_users'[i].marzban_username = marzban_users[i].marzban_username
          /\ marzban_users'[i].marzban_panel_id = marzban_users[i].marzban_panel_id
          /\ marzban_users'[i].created_by_new_panel = marzban_users[i].created_by_new_panel

\* C40: when a synchronisation and a billable modification work on the same
\* mirror at the same time, in whatever order their writes fall, the debit
\* and the ledger entry of the modification are applied exactly once and
\* the mirror keeps its reseller, username, panel and created_by_new_panel;
\* a write of the synchronisation touches nothing but the stored payload
\* and last_synced_at, which may so be left with the older of the two.
C40_SyncBesideModify ==
    [][/\ IdentityKept
       /\ \A p \in Procs :
             /\ (/\ pc[p] = "modify_commit"
                 /\ pc'[p] = "done"
                 /\ result'[p].status = 200
                 /\ loc[p].cost > 0)
                => LET r == loc[p].reseller
                   IN  /\ wallet_balance'[r] = wallet_balance[r] - loc[p].cost
                       /\ transactions' = Append(transactions,
                              transactions'[Len(transactions')])
                       /\ transactions'[Len(transactions')].amount = 0 - loc[p].cost
                       /\ transactions'[Len(transactions')].marzban_user_id
                             = loc[p].user_id
             /\ (loc[p].op = "sync" /\ pc'[p] # pc[p])
                => /\ wallet_balance' = wallet_balance
                   /\ transactions' = transactions
                   /\ \A i \in 1..Len(marzban_users) :
                         marzban_users'[i] =
                            [marzban_users[i] EXCEPT
                                !.api_response_data = marzban_users'[i].api_response_data,
                                !.last_synced_at = marzban_users'[i].last_synced_at]
             /\ (/\ loc[p].op = "modify"
                 /\ pc'[p] # pc[p]
                 /\ ~(pc[p] = "modify_commit" /\ result'[p].status = 200))
                => db' = db]_vars

\* The modification has been committed, once, and a synchronisation that
\* had listed the user before has then stored the older payload.
C40_Witness ==
    /\ Len(transactions) = 1
    /\ wallet_balance[1] = OpeningBalance[1] + transactions[1].amount
    /\ marzban_users[1].notes = TopUpRequest.note
    /\ marzban_users[1].api_response_data.data_limit = 1024
    /\ \E u \in panel_users[1] :
          u.username = "u1" /\ u.data_limit = gb_to_bytes(TopUpRequest.data_limit_gb)
    /\ \E p \in Procs :
          /\ loc[p].op = "sync"
          /\ loc[p].summary.updated_count >= 1
          /\ marzban_users[1].last_synced_at > 1
====
